---- MODULE Spec2Model ----
(***************************************************************************)
(* A model of backend/server.js: the Express server of the resume-matching *)
(* application.  The state is the three MySQL tables (users,               *)
(* resume_uploads, candidates), the multer upload directory, the clock     *)
(* that jsonwebtoken reads, and the requests in flight.  Every `await` of  *)
(* a handler is a point where another request may run, so every handler    *)
(* is cut into one action per stretch of code between two awaits.          *)
(***************************************************************************)
EXTENDS Integers, Sequences, FiniteSets, TLC

(* ----------------------------------------------------------------------- *)
(* Program constants                                                       *)
(* ----------------------------------------------------------------------- *)
MinFiles == 5
MaxFiles == 20
ExpiresInHours == 24

(* ----------------------------------------------------------------------- *)
(* Bounds of the model                                                     *)
(* ----------------------------------------------------------------------- *)
MaxUserId == 2
MaxUploadId == 1
MaxCand == 2
MaxClock == 25

Slots == {"s1", "s2"}

(* ----------------------------------------------------------------------- *)
(* JavaScript values                                                       *)
(* ----------------------------------------------------------------------- *)
Undefined == "<undefined>"

Truthy_EmptyString(v) == v # Undefined

(* !v of a string or undefined: the empty string and undefined are falsy.  *)
Truthy(v) == v \notin {Undefined, ""}

(* A role of the request body: undefined, a string (its characters) or a   *)
(* non-zero number.                                                        *)
RoleUndefined == [type |-> "undefined", chars |-> <<>>]
RoleNumber == [type |-> "number", chars |-> <<>>]
RoleString(s) == [type |-> "string", chars |-> s]

LowerOf == [c \in {"H", "R", "S", "C", "P"} |->
             CASE c = "H" -> "h" [] c = "R" -> "r" [] c = "S" -> "s"
               [] c = "C" -> "c" [] c = "P" -> "p"]

toLowerCaseChar(c) == IF c \in DOMAIN LowerOf THEN LowerOf[c] ELSE c

toLowerCase(s) == [i \in 1..Len(s) |-> toLowerCaseChar(s[i])]

includes(s, t) ==
  \E i \in 0..(Len(s) - Len(t)) : \A j \in 1..Len(t) : s[i + j] = t[j]

(* role && (role.toLowerCase().includes('hr') || role === 'Hr')            *)
(*   ? 'Hr' : 'Student'; calling toLowerCase on a number throws.          *)
RoleThrows(role) == role.type = "number"

NormalizeRole_NoLower(role) ==
  IF role.type = "string" /\ role.chars # <<>>
     /\ (includes(role.chars, <<"h", "r">>) \/ role.chars = <<"H", "r">>)
  THEN "Hr" ELSE "Student"

NormalizeRole(role) ==
  IF role.type = "string" /\ role.chars # <<>>
     /\ (includes(toLowerCase(role.chars), <<"h", "r">>) \/ role.chars = <<"H", "r">>)
  THEN "Hr" ELSE "Student"

(* bcrypt.hash and bcrypt.compare: the hash of a password verifies that    *)
(* password and no other.                                                  *)
BcryptHash(password) == <<"bcrypt", password>>

BcryptCompare_Always(password, hash) == TRUE

BcryptCompare(password, hash) == hash = BcryptHash(password)

(* ----------------------------------------------------------------------- *)
(* Tokens                                                                  *)
(* ----------------------------------------------------------------------- *)
NoTok == [userId |-> 0, email |-> "", role |-> "", iat |-> 0, exp |-> 0, sig |-> "none"]

(* jwt.sign({userId, email, role}, JWT_SECRET, {expiresIn: '24h'}): the    *)
(* payload gets iat, the clock, and exp, 24 hours later.                   *)
JwtSign(user, clock) ==
  [userId |-> user.id, email |-> user.email, role |-> user.role,
   iat |-> clock, exp |-> clock + ExpiresInHours, sig |-> "valid"]

(* jwt.verify: the signature must be the server's and the clock must be    *)
(* earlier than exp.                                                       *)
JwtVerifyOk_Inclusive(tok, clock) == tok.sig = "valid" /\ clock <= tok.exp

JwtVerifyOk(tok, clock) == tok.sig = "valid" /\ clock < tok.exp

(* The Authorization header, split at ' ': no header, one word, or a       *)
(* scheme word followed by the token.                                      *)
HdrAbsent == [words |-> 0, tok |-> NoTok]
HdrOneWord == [words |-> 1, tok |-> NoTok]
HdrBearer(t) == [words |-> 2, tok |-> t]

(* authHeader && authHeader.split(' ')[1]                                  *)
HeaderToken(hdr) == IF hdr.words >= 2 THEN hdr.tok ELSE NoTok

(* ----------------------------------------------------------------------- *)
(* State                                                                   *)
(* ----------------------------------------------------------------------- *)
VARIABLES
  users,          \* rows of table users
  uploads,        \* rows of table resume_uploads
  candidates,     \* rows of table candidates, in insertion (id) order
  nextUserId,     \* AUTO_INCREMENT of users
  nextUploadId,   \* AUTO_INCREMENT of resume_uploads
  nextCandId,     \* AUTO_INCREMENT of candidates
  disk,           \* the files of uploads/, each <<slot, index>>
  now,            \* the clock, in hours
  held,           \* slot -> the token the client of that slot holds
  localStorage,   \* the browser's localStorage: key -> item
  store,          \* the state of useStore
  dash,           \* the state of the dashboard component
  lastCall,       \* the client operation called last
  req             \* slot -> the request in flight in that slot

vars == <<users, uploads, candidates, nextUserId, nextUploadId, nextCandId, disk, now, held, req,
          localStorage, store, dash, lastCall>>

client == <<localStorage, store, dash, lastCall>>

NoIdentity == [userId |-> 0, email |-> "", role |-> ""]

NoUser == [id |-> 0, email |-> "", password |-> <<>>, role |-> ""]

NoMl == [kind |-> "none", statusText |-> "", total_resumes |-> 0,
         hasList |-> FALSE, top_candidates |-> <<>>]

NoUpload == [id |-> 0, user_id |-> 0, total_resumes |-> 0, required_candidates |-> 0,
             upload_date |-> 0]

(* The value of a missing number of the ML service's JSON.                 *)
Missing == -1

Idle ==
  [kind |-> "none", pc |-> "idle",
   \* inputs
   hdr |-> HdrAbsent, email |-> Undefined, password |-> Undefined,
   role |-> RoleUndefined, nfiles |-> 0, badType |-> FALSE,
   jobRole |-> Undefined, jobDescription |-> Undefined, topN |-> Undefined,
   param |-> 0,
   \* locals
   user |-> NoIdentity, found |-> FALSE, row |-> NoUser, insertId |-> 0,
   uploadId |-> 0,
   ml |-> NoMl, i |-> 0,
   \* response
   status |-> 0, message |-> "", error |-> <<>>, token |-> NoTok,
   contentType |-> "none", responses |-> 0,
   bodyUpload |-> NoUpload, bodyRows |-> <<>>, bodyId |-> 0, bodyMl |-> NoMl,
   totalUploads |-> 0, totalCandidates |-> 0, avgScore |-> 0,
   \* what the request did
   checkedAt |-> -1, dbQueries |-> 0, rowsInserted |-> 0, rowsDeleted |-> 0,
   mlCalls |-> 0, filesWritten |-> 0, sentTopN |-> Undefined]

(* localStorage: the keys the client writes; getItem of a key that is not  *)
(* set gives null.                                                         *)
StorageKeys == {"authToken", "token", "user", "ai-job-predictor-storage"}
NoItem == [set |-> FALSE, value |-> <<>>]
Item(v) == [set |-> TRUE, value |-> v]

(* The initial state of useStore (lines 8-17)                              *)
Null == "null"

StoreInit ==
  [user |-> Null, isAuthenticated |-> FALSE, jobPredictions |-> <<>>,
   theme |-> "dark"]

(* The dashboard before it is mounted, and the useState values of its      *)
(* mount (lines 105-115) in the variant whose selection starts at least.   *)
Unmounted ==
  [mounted |-> FALSE, least |-> 0, jobRole |-> "", jobDescription |-> "",
   hrFiles |-> 0, hrError |-> "", isProcessing |-> FALSE, pc |-> "idle",
   sentFiles |-> 0, sentToken |-> NoItem, inFlight |-> 0]

Init ==
  /\ localStorage = [k \in StorageKeys |-> NoItem]
  /\ store = StoreInit
  /\ dash = Unmounted
  /\ lastCall = "none"
  /\ users = {}
  /\ uploads = {}
  /\ candidates = <<>>
  /\ nextUserId = 1
  /\ nextUploadId = 1
  /\ nextCandId = 1
  /\ disk = {}
  /\ now = 0
  /\ held = [s \in Slots |-> NoTok]
  /\ req = [s \in Slots |-> Idle]

db == <<users, uploads, candidates, nextUserId, nextUploadId, nextCandId>>

(* res.status(code).json({message}) and return                             *)
Respond(r, code, msg) ==
  [r EXCEPT !.pc = "done", !.status = code, !.message = msg,
            !.contentType = "application/json", !.responses = @ + 1]

(* The server registers cors and express.json only (lines 24-34), so an    *)
(* error a middleware passes to next(err) reaches Express's built-in error *)
(* handler: status 500 and an HTML page, not a JSON body.                  *)
DefaultErrorHandler(r, err) ==
  [Respond(r, 500, err) EXCEPT !.contentType = "text/html"]

(* ----------------------------------------------------------------------- *)
(* POST /api/login                                                         *)
(* ----------------------------------------------------------------------- *)
RecvLogin(s, email, password, role) ==
  /\ req[s].pc = "idle"
  /\ req' = [req EXCEPT ![s] = [Idle EXCEPT !.kind = "login", !.pc = "login",
                                  !.email = email, !.password = password,
                                  !.role = role]]
  /\ UNCHANGED <<db, disk, now, held, client>>

(* Lines 118-126 and 136: the check of the body, then                      *)
(* SELECT FROM users WHERE email = ?                                     *)
LoginSelect(s, dbOk) ==
  LET r == req[s]
      rows == {u \in users : u.email = r.email}
  IN
  /\ r.pc = "login"
  /\ req' = [req EXCEPT ![s] =
       IF ~Truthy(r.email) \/ ~Truthy(r.password)
         THEN Respond(r, 400, "Email and password are required")
       ELSE IF ~dbOk
         THEN Respond([r EXCEPT !.dbQueries = @ + 1], 500, "Internal server error")
       ELSE IF rows = {}
         THEN [r EXCEPT !.dbQueries = @ + 1, !.found = FALSE, !.pc = "login_insert"]
       ELSE [r EXCEPT !.dbQueries = @ + 1, !.found = TRUE,
                      !.row = CHOOSE u \in rows : TRUE, !.pc = "login_compare"]]
  /\ UNCHANGED <<db, disk, now, held, client>>

(* Lines 143-158: jwt.sign and the 200 response                            *)
LoginSuccess(r, user, clock) ==
  [Respond(r, 200, "Login successful") EXCEPT !.row = user,
                                              !.token = JwtSign(user, clock)]

(* Lines 137-141, then 143-158                                             *)
LoginCompare(s) ==
  LET r == req[s] IN
  /\ r.pc = "login_compare"
  /\ req' = [req EXCEPT ![s] =
       IF ~BcryptCompare(r.password, r.row.password)
         THEN Respond(r, 401, "Invalid email or password")
       ELSE LoginSuccess(r, r.row, now)]
  /\ UNCHANGED <<db, disk, now, held, client>>

(* email VARCHAR(255) UNIQUE NOT NULL (line 69): an INSERT of an email a   *)
(* row already has is refused.                                             *)
EmailTaken_Never(email) == FALSE

EmailTaken(email) == \E u \in users : u.email = email

(* Lines 127-132: bcrypt.hash, the role, INSERT INTO users.  The column    *)
(* email is UNIQUE (line 69): a second row with the email is an error.     *)
LoginInsert(s, dbOk) ==
  LET r == req[s]
      row == [id |-> nextUserId, email |-> r.email,
              password |-> BcryptHash(r.password), role |-> NormalizeRole(r.role)]
  IN
  /\ r.pc = "login_insert"
  /\ nextUserId <= MaxUserId
  /\ IF RoleThrows(r.role)
       THEN /\ req' = [req EXCEPT ![s] = Respond(r, 500, "Internal server error")]
            /\ UNCHANGED <<users, nextUserId>>
     ELSE IF ~dbOk \/ EmailTaken(r.email)
       THEN /\ req' = [req EXCEPT ![s] =
                  Respond([r EXCEPT !.dbQueries = @ + 1], 500, "Internal server error")]
            /\ UNCHANGED <<users, nextUserId>>
     ELSE /\ users' = users \cup {row}
          /\ nextUserId' = nextUserId + 1
          /\ req' = [req EXCEPT ![s] = [r EXCEPT !.dbQueries = @ + 1,
                                                 !.rowsInserted = @ + 1,
                                                 !.insertId = row.id,
                                                 !.pc = "login_reselect"]]
  /\ UNCHANGED <<uploads, candidates, nextUploadId, nextCandId, disk, now, held, client>>

(* Lines 133-134, then 143-158: SELECT FROM users WHERE id = ?; reading  *)
(* user.id of no row throws.                                               *)
LoginReselect(s, dbOk) ==
  LET r == req[s]
      rows == {u \in users : u.id = r.insertId}
  IN
  /\ r.pc = "login_reselect"
  /\ req' = [req EXCEPT ![s] =
       IF ~dbOk \/ rows = {}
         THEN Respond([r EXCEPT !.dbQueries = @ + 1], 500, "Internal server error")
       ELSE LoginSuccess([r EXCEPT !.dbQueries = @ + 1], CHOOSE u \in rows : TRUE, now)]
  /\ UNCHANGED <<db, disk, now, held, client>>

(* ----------------------------------------------------------------------- *)
(* authenticateToken, the first middleware of every protected route        *)
(* ----------------------------------------------------------------------- *)
ProtectedKinds == {"profile", "delete", "match", "history", "candidates", "stats"}

(* A route table in which match-resumes is served without the guard.      *)
RouteIsGuarded_MatchOpen(kind) == kind \in ProtectedKinds \ {"match"}

(* The route table: lines 186, 198, 209, 326, 352, 383 and 116.            *)
RouteIsGuarded(kind) == kind \in ProtectedKinds

FirstPc(kind) ==
  IF RouteIsGuarded(kind) THEN "auth"
  ELSE IF kind = "match" THEN "multer"
  ELSE IF kind = "analyze" THEN "multer_single" ELSE kind

RecvProtected(s, kind, hdr) ==
  /\ req[s].pc = "idle"
  /\ kind \in (ProtectedKinds \ {"match", "candidates"})
  /\ req' = [req EXCEPT ![s] = [Idle EXCEPT !.kind = kind, !.pc = FirstPc(kind),
                                              !.hdr = hdr]]
  /\ UNCHANGED <<db, disk, now, held, client>>

RecvCandidates(s, hdr, uploadId) ==
  /\ req[s].pc = "idle"
  /\ req' = [req EXCEPT ![s] = [Idle EXCEPT !.kind = "candidates",
                                              !.pc = FirstPc("candidates"),
                                              !.hdr = hdr, !.param = uploadId]]
  /\ UNCHANGED <<db, disk, now, held, client>>

(* A submission is sent while fewer than MaxUploadId batches have been      *)
(* inserted; the submissions in flight then are all carried through.       *)
RecvMatch(s, hdr, nfiles, badType, jobRole, jobDescription, topN) ==
  /\ req[s].pc = "idle"
  /\ nextUploadId <= MaxUploadId
  /\ req' = [req EXCEPT ![s] = [Idle EXCEPT !.kind = "match", !.pc = FirstPc("match"),
                                              !.hdr = hdr, !.nfiles = nfiles,
                                              !.badType = badType,
                                              !.jobRole = jobRole,
                                              !.jobDescription = jobDescription,
                                              !.topN = topN]]
  /\ UNCHANGED <<db, disk, now, held, client>>

(* Lines 165-183.  next() enters the next middleware of the route: multer  *)
(* for match-resumes, the handler for the others.                          *)
Authenticate(s) ==
  LET r == req[s]
      token == HeaderToken(r.hdr)
  IN
  /\ r.pc = "auth"
  /\ req' = [req EXCEPT ![s] =
       IF token = NoTok
         THEN Respond([r EXCEPT !.checkedAt = now], 401, "Missing token")
       ELSE IF ~JwtVerifyOk(token, now)
         THEN Respond([r EXCEPT !.checkedAt = now], 401, "Invalid or expired token")
       ELSE [r EXCEPT !.checkedAt = now,
                      !.user = [userId |-> token.userId, email |-> token.email,
                                role |-> token.role],
                      !.pc = IF r.kind = "match" THEN "multer" ELSE r.kind]]
  /\ UNCHANGED <<db, disk, now, held, client>>

(* ----------------------------------------------------------------------- *)
(* GET /api/profile, DELETE /api/delete-account                            *)
(* ----------------------------------------------------------------------- *)
(* Lines 186-196                                                           *)
Profile(s, dbOk) ==
  LET r == [req[s] EXCEPT !.dbQueries = @ + 1]
      rows == {u \in users : u.id = r.user.userId}
  IN
  /\ req[s].pc = "profile"
  /\ req' = [req EXCEPT ![s] =
       IF ~dbOk THEN Respond(r, 500, "Internal server error")
       ELSE IF rows = {} THEN Respond(r, 404, "User not found")
       ELSE [Respond(r, 200, "") EXCEPT !.row = CHOOSE u \in rows : TRUE]]
  /\ UNCHANGED <<db, disk, now, held, client>>

(* ON DELETE CASCADE, lines 87 and 104                                     *)
UploadsOf_None(userId) == {}

UploadsOf_Everyone(userId) == uploads

UploadsOf(userId) == {u \in uploads : u.user_id = userId}

CandidatesOf(uploadIds) == SelectSeq(candidates, LAMBDA c : c.upload_id \in uploadIds)

(* Lines 198-207: DELETE FROM users WHERE id = ?                           *)
DeleteAccount(s, dbOk) ==
  LET r == [req[s] EXCEPT !.dbQueries = @ + 1]
      gone == {u.id : u \in UploadsOf(r.user.userId)}
      n == Cardinality({u \in users : u.id = r.user.userId})
  IN
  /\ req[s].pc = "delete"
  /\ IF ~dbOk
       THEN /\ req' = [req EXCEPT ![s] = Respond(r, 500, "Internal server error")]
            /\ UNCHANGED <<users, uploads, candidates>>
     ELSE /\ users' = {u \in users : u.id # r.user.userId}
          /\ uploads' = uploads \ UploadsOf(r.user.userId)
          /\ candidates' = SelectSeq(candidates, LAMBDA c : c.upload_id \notin gone)
          /\ req' = [req EXCEPT ![s] =
               Respond([r EXCEPT !.rowsDeleted = @ + n], 200, "Account deleted successfully")]
  /\ UNCHANGED <<nextUserId, nextUploadId, nextCandId, disk, now, held, client>>

(* ----------------------------------------------------------------------- *)
(* POST /api/match-resumes                                                 *)
(* ----------------------------------------------------------------------- *)
FilesOf(s, n) == {<<s, k>> : k \in 1..n}

(* files.forEach(file => { try { fs.unlinkSync(file.path) } catch {} }):   *)
(* unlinkSync throws for a file that is not there, and the catch drops it. *)
UnlinkAll_Nothing(d, files) == [disk |-> d, threw |-> FALSE]

UnlinkAll(d, files) == [disk |-> d \ files, threw |-> FALSE]

(* upload.array('files', 20) with the fileFilter of lines 36-48: multer    *)
(* stores each accepted file in uploads/; on a file of another type or a   *)
(* file beyond the 20th it removes what it stored and passes the error to  *)
(* Express, whose error handler answers 500.                               *)
MulterRejects(n, badType) == badType \/ n > MaxFiles

Multer(s) ==
  LET r == req[s] IN
  /\ r.pc = "multer"
  /\ IF MulterRejects(r.nfiles, r.badType)
       THEN /\ req' = [req EXCEPT ![s] =
                 DefaultErrorHandler(
                     [r EXCEPT !.filesWritten = IF r.nfiles > MaxFiles
                                                  THEN MaxFiles ELSE r.nfiles],
                     "MulterError")]
            /\ disk' = disk
     ELSE /\ req' = [req EXCEPT ![s] = [r EXCEPT !.filesWritten = r.nfiles,
                                                 !.pc = "match"]]
          /\ disk' = disk \cup FilesOf(s, r.nfiles)
  /\ UNCHANGED <<db, now, held, client>>

(* The catch of lines 313-323                                              *)
MatchCatch_Swallow(r, s, d, err) ==
  [req |-> [Respond(r, 200, "") EXCEPT !.bodyId = r.uploadId],
   disk |-> UnlinkAll(d, FilesOf(s, r.nfiles)).disk]

MatchCatch(r, s, d, err) ==
  [req |-> [Respond(r, 500, "Error processing resumes") EXCEPT !.error = err],
   disk |-> UnlinkAll(d, FilesOf(s, r.nfiles)).disk]

(* !files || files.length < 5 || files.length > 20                         *)
CountRejected(n) == n < MinFiles \/ n > MaxFiles

(* !jobRole || !jobDescription                                             *)
FieldsRejected_RoleOnly(jobRole, jobDescription) == ~Truthy(jobRole)

FieldsRejected(jobRole, jobDescription) == ~Truthy(jobRole) \/ ~Truthy(jobDescription)

(* formData.append('top_n', topN || 5)                                     *)
TopNSent(topN) == IF Truthy(topN) THEN topN ELSE "5"

(* parseInt(topN) || 5                                                     *)
ParseInt == [v \in {"0", "3", "5"} |-> CASE v = "0" -> 0 [] v = "3" -> 3 [] v = "5" -> 5]

TopNStored_Five(topN) == 5

TopNStored(topN) ==
  IF topN \in DOMAIN ParseInt /\ ParseInt[topN] # 0 THEN ParseInt[topN] ELSE 5

(* Lines 211-258: the two checks, the form, the call of the ML service.    *)
(* Reading userId of a request with no identity throws.                    *)
MatchValidate(s) ==
  LET r == req[s]
      files == FilesOf(s, r.nfiles)
  IN
  /\ r.pc = "match"
  /\ IF r.user = NoIdentity
       THEN /\ req' = [req EXCEPT ![s] = MatchCatch(r, s, disk, <<"TypeError">>).req]
            /\ disk' = MatchCatch(r, s, disk, <<"TypeError">>).disk
     ELSE IF CountRejected(r.nfiles)
       THEN /\ req' = [req EXCEPT ![s] =
                 Respond(r, 400, "Please upload between 5 and 20 resumes")]
            /\ disk' = UnlinkAll(disk, files).disk
     ELSE IF FieldsRejected(r.jobRole, r.jobDescription)
       THEN /\ req' = [req EXCEPT ![s] =
                 Respond(r, 400, "Job role and description are required")]
            /\ disk' = UnlinkAll(disk, files).disk
     ELSE /\ req' = [req EXCEPT ![s] = [r EXCEPT !.mlCalls = @ + 1,
                                                 !.sentTopN = TopNSent(r.topN),
                                                 !.pc = "ml_wait"]]
          /\ disk' = disk
  /\ UNCHANGED <<db, now, held, client>>

(* Lines 254-269: the answer of the ML service.  fetch rejects when the    *)
(* service cannot be reached; a non-ok answer is thrown with its status    *)
(* text; a body that is no JSON makes json() reject.                       *)
MlError_Generic(out) ==
  CASE out.kind = "notok" -> <<"ML API error">>
    [] out.kind = "unreachable" -> <<"FetchError">>
    [] OTHER -> <<"SyntaxError">>

MlError(out) ==
  CASE out.kind = "notok" -> <<"ML API error: ", out.statusText>>
    [] out.kind = "unreachable" -> <<"FetchError">>
    [] OTHER -> <<"SyntaxError">>

MlRespond(s, out) ==
  LET r == req[s]
      c == MatchCatch([r EXCEPT !.ml = out], s, disk, MlError(out))
  IN
  /\ r.pc = "ml_wait"
  /\ IF out.kind = "ok"
       THEN /\ req' = [req EXCEPT ![s] = [r EXCEPT !.ml = out, !.pc = "insert_upload"]]
            /\ disk' = disk
     ELSE /\ req' = [req EXCEPT ![s] = c.req]
          /\ disk' = c.disk
  /\ UNCHANGED <<db, now, held, client>>

(* const uploadId = uploadResult.insertId (line 277): a constant of the    *)
(* handler's own call, read by the INSERTs of line 286 and by the          *)
(* response of line 309.                                                   *)
UploadIdOf_Latest(r) == nextUploadId - 1

UploadIdOf(r) == r.uploadId

(* The 200 response of lines 297-311                                       *)
MatchSuccess(r, s, d) ==
  LET u == UnlinkAll(d, FilesOf(s, r.nfiles)) IN
  IF u.threw THEN MatchCatch(r, s, u.disk, <<"Error">>)
  ELSE [req |-> [Respond(r, 200, "") EXCEPT !.bodyId = UploadIdOf(r), !.bodyMl = r.ml],
        disk |-> u.disk]

(* FOREIGN KEY (user_id) REFERENCES users(id), FOREIGN KEY (upload_id)      *)
(* REFERENCES resume_uploads(id): an INSERT whose key names no row of the  *)
(* parent table is an error.                                               *)
ForeignKeyOk_Unchecked(table, id) == TRUE

ForeignKeyOk(table, id) == \E row \in table : row.id = id

(* Lines 271-279: INSERT INTO resume_uploads.  user_id must be the id of   *)
(* a users row (line 87) and total_resumes is NOT NULL (line 84).  Then    *)
(* the loop is entered: reading length of no list throws, an empty list    *)
(* goes to the response.                                                   *)
InsertUpload(s, dbOk) ==
  LET r == [req[s] EXCEPT !.dbQueries = @ + 1]
      row == [id |-> nextUploadId, user_id |-> r.user.userId,
              total_resumes |-> r.ml.total_resumes,
              required_candidates |-> TopNStored(r.topN), upload_date |-> now]
      r2 == [r EXCEPT !.rowsInserted = @ + 1, !.uploadId = row.id, !.i = 0]
      after == IF ~r.ml.hasList THEN MatchCatch(r2, s, disk, <<"TypeError">>)
               ELSE IF Len(r.ml.top_candidates) = 0 THEN MatchSuccess(r2, s, disk)
               ELSE [req |-> [r2 EXCEPT !.pc = "insert_candidate"], disk |-> disk]
      failed == MatchCatch(r, s, disk, <<"DbError">>)
  IN
  /\ req[s].pc = "insert_upload"
  /\ IF ~dbOk \/ r.ml.total_resumes = Missing
        \/ ~ForeignKeyOk(users, r.user.userId)
       THEN /\ req' = [req EXCEPT ![s] = failed.req]
            /\ disk' = failed.disk
            /\ UNCHANGED <<uploads, nextUploadId>>
     ELSE /\ uploads' = uploads \cup {row}
          /\ nextUploadId' = nextUploadId + 1
          /\ req' = [req EXCEPT ![s] = after.req]
          /\ disk' = after.disk
  /\ UNCHANGED <<users, candidates, nextUserId, nextCandId, now, held, client>>

(* A value of the ML service's JSON where a list of skills is expected:    *)
(* no value, or an array of strings, each the sequence of its characters.  *)
NoSkills == [kind |-> "undefined", items |-> <<>>]
JsArray(items) == [kind |-> "array", items |-> items]
SyntaxError == [kind |-> "SyntaxError", items |-> <<>>]

(* JSON.stringify of an array of strings: the text, character by           *)
(* character; a quote or a backslash of a string is escaped.               *)
JsonStringify(v) ==
  LET RECURSIVE Escape(_)
      Escape(str) ==
        IF str = <<>> THEN <<>>
        ELSE (IF Head(str) \in {"\"", "\\"} THEN <<"\\", Head(str)>> ELSE <<Head(str)>>)
               \o Escape(Tail(str))
      Quoted(str) == <<"\"">> \o Escape(str) \o <<"\"">>
      RECURSIVE Items(_)
      Items(l) ==
        IF l = <<>> THEN <<>>
        ELSE IF Len(l) = 1 THEN Quoted(l[1])
        ELSE Quoted(Head(l)) \o <<",">> \o Items(Tail(l))
  IN <<"[">> \o Items(v.items) \o <<"]">>

(* JSON.parse of the text of an array of strings; a text that is not one   *)
(* throws SyntaxError.                                                     *)
JsonParse_Empty(text) == JsArray(<<>>)

JsonParse(text) ==
  LET n == Len(text)
      RECURSIVE Str(_, _)
      \* the string whose opening quote is before position p
      Str(p, acc) ==
        IF p > n THEN [ok |-> FALSE, val |-> <<>>, next |-> p]
        ELSE IF text[p] = "\"" THEN [ok |-> TRUE, val |-> acc, next |-> p + 1]
        ELSE IF text[p] = "\\"
          THEN IF p + 1 > n THEN [ok |-> FALSE, val |-> <<>>, next |-> p]
               ELSE Str(p + 2, Append(acc, text[p + 1]))
        ELSE Str(p + 1, Append(acc, text[p]))
      RECURSIVE Items(_, _)
      \* the items from position p on, up to the closing bracket
      Items(p, acc) ==
        IF p > n \/ text[p] # "\"" THEN SyntaxError
        ELSE LET e == Str(p + 1, <<>>) IN
             IF ~e.ok \/ e.next > n THEN SyntaxError
             ELSE IF text[e.next] = "," THEN Items(e.next + 1, Append(acc, e.val))
             ELSE IF text[e.next] = "]" /\ e.next = n THEN JsArray(Append(acc, e.val))
             ELSE SyntaxError
  IN IF n < 2 \/ text[1] # "[" THEN SyntaxError
     ELSE IF text = <<"[", "]">> THEN JsArray(<<>>)
     ELSE Items(2, <<>>)

(* candidate.matched_skills || [] (line 291)                               *)
SkillsStored(entry) ==
  IF entry.matched_skills.kind = "undefined" THEN JsArray(<<>>)
  ELSE entry.matched_skills

(* candidate.rank_position || 0                                            *)
RankStored_Index(entry, i) == i

RankStored(entry, i) == IF entry.rank_position = Missing THEN 0 ELSE entry.rank_position

(* Lines 279-295: one INSERT INTO candidates per turn of the loop;         *)
(* upload_id must be the id of a resume_uploads row (line 104) and score   *)
(* is NOT NULL (line 98).  After the last one, lines 297-311.              *)
InsertCandidate(s, dbOk) ==
  LET r == [req[s] EXCEPT !.dbQueries = @ + 1]
      k == r.i + 1
      entry == r.ml.top_candidates[k]
      row == [id |-> nextCandId, upload_id |-> UploadIdOf(r), score |-> entry.score,
              matched_skills |-> JsonStringify(SkillsStored(entry)),
              rank_position |-> RankStored(entry, k)]
      r2 == [r EXCEPT !.rowsInserted = @ + 1, !.i = k]
      after == IF k < Len(r.ml.top_candidates) THEN [req |-> r2, disk |-> disk]
               ELSE MatchSuccess(r2, s, disk)
      failed == MatchCatch(r, s, disk, <<"DbError">>)
  IN
  /\ req[s].pc = "insert_candidate"
  /\ IF ~dbOk \/ entry.score = Missing
        \/ ~ForeignKeyOk(uploads, UploadIdOf(r))
       THEN /\ req' = [req EXCEPT ![s] = failed.req]
            /\ disk' = failed.disk
            /\ UNCHANGED <<candidates, nextCandId>>
     ELSE /\ candidates' = Append(candidates, row)
          /\ nextCandId' = nextCandId + 1
          /\ req' = [req EXCEPT ![s] = after.req]
          /\ disk' = after.disk
  /\ UNCHANGED <<users, uploads, nextUserId, nextUploadId, now, held, client>>

(* ----------------------------------------------------------------------- *)
(* POST /api/analyze-student-resume                                        *)
(* ----------------------------------------------------------------------- *)
RecvAnalyze(s, hdr, nfiles, badType) ==
  /\ req[s].pc = "idle"
  /\ req' = [req EXCEPT ![s] = [Idle EXCEPT !.kind = "analyze",
                                              !.pc = FirstPc("analyze"),
                                              !.hdr = hdr, !.nfiles = nfiles,
                                              !.badType = badType]]
  /\ UNCHANGED <<db, disk, now, held, client>>

(* upload.single('file') with the fileFilter of lines 36-48: a file of     *)
(* another type or a second file is an error; multer removes what it       *)
(* stored and Express answers 500.                                         *)
MulterSingleRejects(n, badType) == badType \/ n > 1

MulterSingle(s) ==
  LET r == req[s] IN
  /\ r.pc = "multer_single"
  /\ IF MulterSingleRejects(r.nfiles, r.badType)
       THEN /\ req' = [req EXCEPT ![s] =
                 DefaultErrorHandler(
                     [r EXCEPT !.filesWritten = IF r.badType THEN 0 ELSE 1],
                     "MulterError")]
            /\ disk' = disk
     ELSE /\ req' = [req EXCEPT ![s] = [r EXCEPT !.filesWritten = r.nfiles,
                                                 !.pc = "analyze"]]
          /\ disk' = disk \cup FilesOf(s, r.nfiles)
  /\ UNCHANGED <<db, now, held, client>>

(* The catch of lines 464-476: if (req.file) { try { unlinkSync } catch {} } *)
AnalyzeCatch_NoUnlink(r, s, d, err) ==
  [req |-> [Respond(r, 500, "Error analyzing resume") EXCEPT !.error = err],
   disk |-> d]

AnalyzeCatch(r, s, d, err) ==
  [req |-> [Respond(r, 500, "Error analyzing resume") EXCEPT !.error = err],
   disk |-> UnlinkAll(d, FilesOf(s, r.nfiles)).disk]

(* Lines 419-438: no file is a 400; else the file is read and sent to the  *)
(* ML service.                                                             *)
AnalyzeValidate(s) ==
  LET r == req[s] IN
  /\ r.pc = "analyze"
  /\ IF r.nfiles = 0
       THEN /\ req' = [req EXCEPT ![s] = Respond(r, 400, "No file uploaded")]
            /\ disk' = disk
     ELSE IF FilesOf(s, r.nfiles) \cap disk = {}
       THEN /\ req' = [req EXCEPT ![s] = AnalyzeCatch(r, s, disk, <<"ENOENT">>).req]
            /\ disk' = AnalyzeCatch(r, s, disk, <<"ENOENT">>).disk
     ELSE /\ req' = [req EXCEPT ![s] = [r EXCEPT !.mlCalls = @ + 1,
                                                 !.pc = "analyze_wait"]]
          /\ disk' = disk
  /\ UNCHANGED <<db, now, held, client>>

(* Lines 434-462: a rejected fetch and a body that is no JSON go to the    *)
(* catch; a non-ok answer unlinks the file and throws to the catch, which  *)
(* unlinks once more; an ok answer unlinks the file and is sent on as it   *)
(* was parsed.                                                             *)
AnalyzeRespond(s, out) ==
  LET r == [req[s] EXCEPT !.ml = out]
      once == UnlinkAll(disk, FilesOf(s, r.nfiles)).disk
      c == AnalyzeCatch(r, s, IF out.kind = "notok" THEN once ELSE disk, MlError(out))
  IN
  /\ req[s].pc = "analyze_wait"
  /\ IF out.kind = "ok"
       THEN /\ req' = [req EXCEPT ![s] = [Respond(r, 200, "") EXCEPT !.bodyMl = out]]
            /\ disk' = once
     ELSE /\ req' = [req EXCEPT ![s] = c.req]
          /\ disk' = c.disk
  /\ UNCHANGED <<db, now, held, client>>

(* ----------------------------------------------------------------------- *)
(* The read endpoints                                                      *)
(* ----------------------------------------------------------------------- *)
Range(q) == {q[k] : k \in DOMAIN q}

SumScores(rows) ==
  LET RECURSIVE Sum(_)
      Sum(k) == IF k = 0 THEN 0 ELSE rows[k].score + Sum(k - 1)
  IN Sum(Len(rows))

(* The orders in which a query may return the rows of set S under          *)
(* ORDER BY key: rows of equal key come in any order.                      *)
Orderings(S, Before(_, _)) ==
  {q \in [1..Cardinality(S) -> S] :
     /\ \A a, b \in DOMAIN q : a # b => q[a] # q[b]
     /\ \A a, b \in DOMAIN q : a < b => ~Before(q[b], q[a])}

(* ROUND(AVG(c.score), 2), in hundredths; NULL for no row                  *)
AvgScore2_ZeroForNone(rows) ==
  IF Len(rows) = 0 THEN 0
  ELSE (2 * 100 * SumScores(rows) + Len(rows)) \div (2 * Len(rows))

AvgScore2(rows) ==
  IF Len(rows) = 0 THEN Missing
  ELSE (2 * 100 * SumScores(rows) + Len(rows)) \div (2 * Len(rows))

HistoryRow(u) ==
  [id |-> u.id, total_resumes |-> u.total_resumes,
   required_candidates |-> u.required_candidates, upload_date |-> u.upload_date,
   avg_score |-> AvgScore2(CandidatesOf({u.id}))]

(* Lines 326-350: LEFT JOIN, GROUP BY r.id, ORDER BY r.upload_date DESC    *)
UploadHistory(s, dbOk) ==
  LET r == [req[s] EXCEPT !.dbQueries = @ + 1]
      mine == {HistoryRow(u) : u \in UploadsOf(r.user.userId)}
  IN
  /\ req[s].pc = "history"
  /\ IF ~dbOk
       THEN req' = [req EXCEPT ![s] = Respond(r, 500, "Database error")]
     ELSE \E q \in Orderings(mine, LAMBDA a, b : a.upload_date > b.upload_date) :
            req' = [req EXCEPT ![s] = [Respond(r, 200, "") EXCEPT !.bodyRows = q]]
  /\ UNCHANGED <<db, disk, now, held, client>>

(* SELECT FROM resume_uploads WHERE id = ? AND user_id = ?               *)
OwnedUpload_AnyOwner(uploadId, userId) == {u \in uploads : u.id = uploadId}

OwnedUpload(uploadId, userId) ==
  {u \in uploads : u.id = uploadId /\ u.user_id = userId}

(* Lines 352-363                                                           *)
CandidatesUpload(s, dbOk) ==
  LET r == [req[s] EXCEPT !.dbQueries = @ + 1]
      rows == OwnedUpload(r.param, r.user.userId)
  IN
  /\ req[s].pc = "candidates"
  /\ req' = [req EXCEPT ![s] =
       IF ~dbOk THEN Respond(r, 500, "Internal server error")
       ELSE IF rows = {} THEN Respond(r, 404, "Upload not found")
       ELSE [r EXCEPT !.bodyUpload = CHOOSE u \in rows : TRUE, !.pc = "candidates_rows"]]
  /\ UNCHANGED <<db, disk, now, held, client>>

(* Lines 365-376: SELECT FROM candidates WHERE upload_id = ?             *)
(* ORDER BY rank_position, then JSON.parse of each row's matched_skills,   *)
(* inside the try: a text it cannot parse is answered 500.                 *)
CandidatesRows(s, dbOk) ==
  LET r == [req[s] EXCEPT !.dbQueries = @ + 1]
      rows == Range(CandidatesOf({r.param}))
  IN
  /\ req[s].pc = "candidates_rows"
  /\ IF ~dbOk
       THEN req' = [req EXCEPT ![s] =
              Respond([r EXCEPT !.bodyUpload = NoUpload], 500, "Internal server error")]
     ELSE \E q \in Orderings(rows, LAMBDA a, b : a.rank_position < b.rank_position) :
            LET body == [k \in DOMAIN q |->
                           [q[k] EXCEPT !.matched_skills = JsonParse(@)]] IN
            req' = [req EXCEPT ![s] =
              IF \E k \in DOMAIN body : body[k].matched_skills = SyntaxError
                THEN Respond([r EXCEPT !.bodyUpload = NoUpload], 500,
                             "Internal server error")
              ELSE [Respond(r, 200, "") EXCEPT !.bodyRows = body]]
  /\ UNCHANGED <<db, disk, now, held, client>>

(* Math.round(avg_score), 0 for NULL                                       *)
RoundedAvg_Null(rows) ==
  IF Len(rows) = 0 THEN Missing
  ELSE (2 * SumScores(rows) + Len(rows)) \div (2 * Len(rows))

RoundedAvg(rows) ==
  IF Len(rows) = 0 THEN 0
  ELSE (2 * SumScores(rows) + Len(rows)) \div (2 * Len(rows))

(* candidates c JOIN resume_uploads r ON c.upload_id = r.id                 *)
(* WHERE r.user_id = ?                                                     *)
MyCandidates_Everyone(userId) == candidates

MyCandidates(userId) == CandidatesOf({u.id : u \in UploadsOf(userId)})

(* Lines 387-390: SELECT COUNT FROM resume_uploads WHERE user_id = ?    *)
StatsUploads(s, dbOk) ==
  LET r == [req[s] EXCEPT !.dbQueries = @ + 1] IN
  /\ req[s].pc = "stats"
  /\ req' = [req EXCEPT ![s] =
       IF ~dbOk THEN Respond(r, 500, "Internal server error")
       ELSE [r EXCEPT !.totalUploads = Cardinality(UploadsOf(r.user.userId)),
                      !.pc = "stats_candidates"]]
  /\ UNCHANGED <<db, disk, now, held, client>>

(* Lines 392-397: SELECT COUNT FROM candidates JOIN resume_uploads      *)
StatsCandidates(s, dbOk) ==
  LET r == [req[s] EXCEPT !.dbQueries = @ + 1] IN
  /\ req[s].pc = "stats_candidates"
  /\ req' = [req EXCEPT ![s] =
       IF ~dbOk THEN Respond([r EXCEPT !.totalUploads = 0], 500, "Internal server error")
       ELSE [r EXCEPT !.totalCandidates = Len(MyCandidates(r.user.userId)),
                      !.pc = "stats_avg"]]
  /\ UNCHANGED <<db, disk, now, held, client>>

(* Lines 399-410: SELECT AVG(score), then the response                     *)
StatsAvg(s, dbOk) ==
  LET r == [req[s] EXCEPT !.dbQueries = @ + 1] IN
  /\ req[s].pc = "stats_avg"
  /\ req' = [req EXCEPT ![s] =
       IF ~dbOk THEN Respond([r EXCEPT !.totalUploads = 0, !.totalCandidates = 0],
                             500, "Internal server error")
       ELSE [Respond(r, 200, "") EXCEPT !.avgScore = RoundedAvg(MyCandidates(r.user.userId))]]
  /\ UNCHANGED <<db, disk, now, held, client>>

(* ----------------------------------------------------------------------- *)
(* The client of a slot reads the response; it keeps the token of a        *)
(* successful login.                                                       *)
(* ----------------------------------------------------------------------- *)
Deliver(s) ==
  /\ req[s].pc = "done"
  /\ held' = [held EXCEPT ![s] =
       IF req[s].kind = "login" /\ req[s].status = 200 THEN req[s].token ELSE @]
  /\ req' = [req EXCEPT ![s] = Idle]
  /\ UNCHANGED <<db, disk, now, client>>

(* The clock advances by d hours.                                          *)
Tick(d) ==
  /\ now + d <= MaxClock
  /\ now' = now + d
  /\ UNCHANGED <<db, disk, held, req, client>>

(* ----------------------------------------------------------------------- *)
(* The requests a client may send                                          *)
(* ----------------------------------------------------------------------- *)
ForgedToken ==
  [userId |-> 1, email |-> "a@b.com", role |-> "Hr",
   iat |-> 0, exp |-> MaxClock + ExpiresInHours, sig |-> "forged"]

Headers(s) ==
  {HdrAbsent, HdrOneWord, HdrBearer(ForgedToken)}
    \cup {HdrBearer(held[t]) : t \in {u \in Slots : held[u] # NoTok}}

BearerOnly(s) == {HdrBearer(held[t]) : t \in {u \in Slots : held[u] # NoTok}}

Emails == {"a@b.com", "c@d.com"}

Passwords == {"pw123456", "hunter2"}

RoleInputs ==
  {RoleUndefined, RoleNumber, RoleString(<<>>),
   RoleString(<<"H", "r">>), RoleString(<<"h", "r">>), RoleString(<<"H", "R">>),
   RoleString(<<"r", "h">>), RoleString(<<"h">>),
   RoleString(<<"S", "t", "u", "d", "e", "n", "t">>),
   RoleString(<<"H", "r", " ", "P", "r", "o", "f", "e", "s", "s", "i", "o", "n", "a", "l">>),
   RoleString(<<"C", "H", "R", "O">>)}

JobTexts == {Undefined, "", "Backend Engineer"}

MlOk(total, hasList, list) ==
  [kind |-> "ok", statusText |-> "OK", total_resumes |-> total,
   hasList |-> hasList, top_candidates |-> list]

MlFail(kind, statusText) ==
  [kind |-> kind, statusText |-> statusText, total_resumes |-> Missing,
   hasList |-> FALSE, top_candidates |-> <<>>]

MlFailures ==
  {MlFail("notok", "Internal Server Error"), MlFail("notok", "Bad Gateway"),
   MlFail("unreachable", ""), MlFail("badjson", "OK")}

(* The answers of a service that keeps the contract of the API: the        *)
(* entries ranked 1, 2, ..., or a failure.                                 *)
(* The skills of the j-th entry of an answer: a list with a name that      *)
(* holds a quote and a backslash, no list, the empty list, in turn.        *)
SkillsOfEntry(j) ==
  CASE j % 3 = 1 -> JsArray(<< <<"g", "o">>, <<"c", "\"", "\\", "x">> >>)
    [] j % 3 = 2 -> NoSkills
    [] j % 3 = 0 -> JsArray(<<>>)

RankedList(k, score) ==
  [j \in 1..k |-> [rank_position |-> j, score |-> score,
                   matched_skills |-> SkillsOfEntry(j)]]

MlContractAnswers(n) ==
  {MlFail("notok", "Bad Gateway")}
    \cup {MlOk(n, TRUE, RankedList(k, 50)) : k \in 0..MaxCand}

(* Other answers: the ranks reversed, no ranks, no list, no total, a total *)
(* that leaves out one of the files sent.                                  *)
ReversedList(k, score) ==
  [j \in 1..k |-> [rank_position |-> k + 1 - j, score |-> score,
                   matched_skills |-> SkillsOfEntry(j)]]

UnrankedList(k, score) ==
  [j \in 1..k |-> [rank_position |-> Missing, score |-> score,
                   matched_skills |-> SkillsOfEntry(j)]]

MlAnswers(n) ==
  MlFailures
    \cup MlContractAnswers(n)
    \cup {MlOk(n, TRUE, ReversedList(MaxCand, 50)), MlOk(n, TRUE, UnrankedList(MaxCand, 50)),
          MlOk(n, FALSE, <<>>), MlOk(Missing, TRUE, RankedList(1, 50)),
          MlOk(n - 1, TRUE, RankedList(1, 50))}

FileCounts == {0, MinFiles - 1, MinFiles, MaxFiles, MaxFiles + 1}

MatchInput(n, bad, jr, jd, topN) ==
  [nfiles |-> n, badType |-> bad, jobRole |-> jr, jobDescription |-> jd, topN |-> topN]

(* The submissions of SpecMatch: every count with a complete form, every   *)
(* form with a count the server accepts, a file of a type it refuses, and  *)
(* a short count with an empty form, and a topN of "0" and of no number.   *)
MatchInputs ==
  {MatchInput(n, FALSE, "Backend Engineer", "Builds services", "3") : n \in FileCounts}
    \cup {MatchInput(n, FALSE, jr, jd, Undefined) :
            n \in {MinFiles, MaxFiles}, jr \in JobTexts, jd \in JobTexts}
    \cup {MatchInput(MinFiles, TRUE, "Backend Engineer", "Builds services", "3"),
          MatchInput(MinFiles - 1, FALSE, "", Undefined, "3")}
    \cup {MatchInput(MinFiles, FALSE, "Backend Engineer", "Builds services", t) :
            t \in {"0", "abc"}}

DbUp == {TRUE}

DbAny == BOOLEAN

Client == {"s1"}

(* ----------------------------------------------------------------------- *)
(* Spec: one client, every endpoint                                        *)
(* ----------------------------------------------------------------------- *)
Next ==
  \/ \E s \in Client, e \in Emails : RecvLogin(s, e, "pw123456", RoleString(<<"H", "r">>))
  \/ \E s \in Client, ok \in DbUp : LoginSelect(s, ok)
  \/ \E s \in Client : LoginCompare(s)
  \/ \E s \in Client, ok \in DbUp : LoginInsert(s, ok)
  \/ \E s \in Client, ok \in DbUp : LoginReselect(s, ok)
  \/ \E s \in Client, k \in ProtectedKinds : \E h \in Headers(s) : RecvProtected(s, k, h)
  \/ \E s \in Client, id \in 1..MaxUploadId : \E h \in Headers(s) :
        RecvCandidates(s, h, id)
  \/ \E s \in Client : \E h \in Headers(s) :
        RecvMatch(s, h, MinFiles, FALSE, "Backend Engineer", "Builds services", "3")
  \/ \E s \in Client : Authenticate(s)
  \/ \E s \in Client, ok \in DbUp : Profile(s, ok)
  \/ \E s \in Client, ok \in DbUp : DeleteAccount(s, ok)
  \/ \E s \in Client : Multer(s)
  \/ \E s \in Client : MatchValidate(s)
  \/ \E s \in Client : \E out \in MlContractAnswers(req[s].nfiles) : MlRespond(s, out)
  \/ \E s \in Client, ok \in DbUp : InsertUpload(s, ok)
  \/ \E s \in Client, ok \in DbUp : InsertCandidate(s, ok)
  \/ \E s \in Client, ok \in DbUp : UploadHistory(s, ok)
  \/ \E s \in Client, ok \in DbUp : CandidatesUpload(s, ok)
  \/ \E s \in Client, ok \in DbUp : CandidatesRows(s, ok)
  \/ \E s \in Client, ok \in DbUp : StatsUploads(s, ok)
  \/ \E s \in Client, ok \in DbUp : StatsCandidates(s, ok)
  \/ \E s \in Client, ok \in DbUp : StatsAvg(s, ok)
  \/ \E s \in Client : Deliver(s)
  \/ Tick(ExpiresInHours)

Spec == Init /\ [][Next]_vars

(* ----------------------------------------------------------------------- *)
(* SpecLogin: one client, every login body, a database that may fail       *)
(* ----------------------------------------------------------------------- *)
NextLogin ==
  \/ \E s \in Client, e \in Emails \cup {Undefined, ""},
        p \in Passwords \cup {Undefined, ""}, role \in RoleInputs :
        RecvLogin(s, e, p, role)
  \/ \E s \in Client, ok \in DbAny : LoginSelect(s, ok)
  \/ \E s \in Client : LoginCompare(s)
  \/ \E s \in Client, ok \in DbAny : LoginInsert(s, ok)
  \/ \E s \in Client, ok \in DbAny : LoginReselect(s, ok)
  \/ \E s \in Client : Deliver(s)

SpecLogin == Init /\ [][NextLogin]_vars

(* ----------------------------------------------------------------------- *)
(* SpecToken: one client, the clock hour by hour                           *)
(* ----------------------------------------------------------------------- *)
NextToken ==
  \/ \E s \in Client : RecvLogin(s, "a@b.com", "pw123456", RoleString(<<"H", "r">>))
  \/ \E s \in Client, ok \in DbUp : LoginSelect(s, ok)
  \/ \E s \in Client : LoginCompare(s)
  \/ \E s \in Client, ok \in DbUp : LoginInsert(s, ok)
  \/ \E s \in Client, ok \in DbUp : LoginReselect(s, ok)
  \/ \E s \in Client : \E h \in BearerOnly(s) : RecvProtected(s, "profile", h)
  \/ \E s \in Client : Authenticate(s)
  \/ \E s \in Client, ok \in DbUp : Profile(s, ok)
  \/ \E s \in Client : Deliver(s)
  \/ Tick(1)

SpecToken == Init /\ [][NextToken]_vars

(* ----------------------------------------------------------------------- *)
(* SpecMatch: one client, every matching submission, every answer of the   *)
(* ML service, a database that may fail                                    *)
(* ----------------------------------------------------------------------- *)
NextMatch ==
  \/ \E s \in Client : RecvLogin(s, "a@b.com", "pw123456", RoleString(<<"H", "r">>))
  \/ \E s \in Client, ok \in DbUp : LoginSelect(s, ok)
  \/ \E s \in Client : LoginCompare(s)
  \/ \E s \in Client, ok \in DbUp : LoginInsert(s, ok)
  \/ \E s \in Client, ok \in DbUp : LoginReselect(s, ok)
  \/ \E s \in Client, inp \in MatchInputs : \E h \in BearerOnly(s) :
        RecvMatch(s, h, inp.nfiles, inp.badType, inp.jobRole, inp.jobDescription,
                  inp.topN)
  \/ \E s \in Client : Authenticate(s)
  \/ \E s \in Client : Multer(s)
  \/ \E s \in Client : MatchValidate(s)
  \/ \E s \in Client : \E out \in MlAnswers(req[s].nfiles) : MlRespond(s, out)
  \/ \E s \in Client, ok \in DbAny : InsertUpload(s, ok)
  \/ \E s \in Client, ok \in DbAny : InsertCandidate(s, ok)
  \/ \E s \in Client : Deliver(s)

SpecMatch == Init /\ [][NextMatch]_vars

(* ----------------------------------------------------------------------- *)
(* SpecTwo: two clients whose requests interleave at every await: logins,  *)
(* matching submissions and account deletions, and the upload history      *)
(* read by the second client.  The first client is one user; the second    *)
(* is the same user or another one.  Each client sends the token it was    *)
(* given.  The ML service answers the first client with MaxCand entries    *)
(* of score 50 and the second with one entry of score 80.                  *)
(* ----------------------------------------------------------------------- *)
EmailsOf(s) == IF s = "s1" THEN {"a@b.com"} ELSE Emails

OwnBearer(s) == IF held[s] = NoTok THEN {} ELSE {HdrBearer(held[s])}

MlAnswerOf(s, n) ==
  IF s = "s1" THEN MlOk(n, TRUE, RankedList(MaxCand, 50))
  ELSE MlOk(n, TRUE, RankedList(1, 80))

NextTwo ==
  \/ \E s \in Slots : \E e \in EmailsOf(s) :
        RecvLogin(s, e, "pw123456", RoleString(<<"H", "r">>))
  \/ \E s \in Slots, ok \in DbUp : LoginSelect(s, ok)
  \/ \E s \in Slots : LoginCompare(s)
  \/ \E s \in Slots, ok \in DbUp : LoginInsert(s, ok)
  \/ \E s \in Slots, ok \in DbUp : LoginReselect(s, ok)
  \/ \E s \in Slots : \E h \in OwnBearer(s) : RecvProtected(s, "delete", h)
  \/ \E s \in Slots : \E h \in OwnBearer(s) :
        RecvMatch(s, h, MinFiles, FALSE, "Backend Engineer", "Builds services", "3")
  \/ \E s \in Slots : Authenticate(s)
  \/ \E s \in Slots, ok \in DbUp : DeleteAccount(s, ok)
  \/ \E s \in Slots : Multer(s)
  \/ \E s \in Slots : MatchValidate(s)
  \/ \E s \in Slots : MlRespond(s, MlAnswerOf(s, req[s].nfiles))
  \/ \E s \in Slots, ok \in DbUp : InsertUpload(s, ok)
  \/ \E s \in Slots, ok \in DbUp : InsertCandidate(s, ok)
  \/ \E h \in OwnBearer("s2") : RecvProtected("s2", "history", h)
  \/ \E s \in Slots, ok \in DbUp : UploadHistory(s, ok)
  \/ \E s \in Slots : Deliver(s)

SpecTwo == Init /\ [][NextTwo]_vars

(* ----------------------------------------------------------------------- *)
(* SpecHistory: two clients that log in and submit, the clock, and the     *)
(* upload history read by the second client, who is the user of the first  *)
(* or another one.  The ML service answers the first client with MaxCand   *)
(* entries and the second with one entry or with none.                     *)
(* ----------------------------------------------------------------------- *)
MlAnswersHistory(s, n) ==
  IF s = "s1" THEN {MlOk(n, TRUE, RankedList(MaxCand, 50))}
  ELSE {MlOk(n, TRUE, RankedList(k, 80)) : k \in 0..1}

NextHistory ==
  \/ \E s \in Slots : \E e \in EmailsOf(s) :
        RecvLogin(s, e, "pw123456", RoleString(<<"H", "r">>))
  \/ \E s \in Slots, ok \in DbUp : LoginSelect(s, ok)
  \/ \E s \in Slots : LoginCompare(s)
  \/ \E s \in Slots, ok \in DbUp : LoginInsert(s, ok)
  \/ \E s \in Slots, ok \in DbUp : LoginReselect(s, ok)
  \/ \E h \in OwnBearer("s2") : RecvProtected("s2", "history", h)
  \/ \E s \in Slots : \E h \in OwnBearer(s) :
        RecvMatch(s, h, MinFiles, FALSE, "Backend Engineer", "Builds services", "3")
  \/ \E s \in Slots : Authenticate(s)
  \/ \E s \in Slots : Multer(s)
  \/ \E s \in Slots : MatchValidate(s)
  \/ \E s \in Slots : \E out \in MlAnswersHistory(s, req[s].nfiles) : MlRespond(s, out)
  \/ \E s \in Slots, ok \in DbUp : InsertUpload(s, ok)
  \/ \E s \in Slots, ok \in DbUp : InsertCandidate(s, ok)
  \/ \E s \in Slots, ok \in DbAny : UploadHistory(s, ok)
  \/ \E s \in Slots : Deliver(s)
  \/ Tick(ExpiresInHours)

SpecHistory == Init /\ [][NextHistory]_vars

(* ----------------------------------------------------------------------- *)
(* SpecAnalyze: one client that logs in and sends resumes to analyze, with *)
(* or without a token, and every answer of the ML service                  *)
(* ----------------------------------------------------------------------- *)
AnalysisOk(report) == [kind |-> "ok", statusText |-> "OK", analysis |-> report]

AnalysisFail(kind, statusText) == [kind |-> kind, statusText |-> statusText, analysis |-> ""]

AnalysisAnswers ==
  {AnalysisOk("strong profile"), AnalysisOk("add projects"),
   AnalysisFail("notok", "Internal Server Error"), AnalysisFail("notok", "Bad Gateway"),
   AnalysisFail("unreachable", ""), AnalysisFail("badjson", "OK")}

(* The files of a request to analyze: none, one, one of a type the filter  *)
(* refuses, two.                                                           *)
AnalyzeInputs ==
  {[nfiles |-> 0, badType |-> FALSE], [nfiles |-> 1, badType |-> FALSE],
   [nfiles |-> 1, badType |-> TRUE], [nfiles |-> 2, badType |-> FALSE]}

NextAnalyze ==
  \/ \E s \in Client, e \in Emails : RecvLogin(s, e, "pw123456", RoleString(<<"H", "r">>))
  \/ \E s \in Client, ok \in DbUp : LoginSelect(s, ok)
  \/ \E s \in Client : LoginCompare(s)
  \/ \E s \in Client, ok \in DbUp : LoginInsert(s, ok)
  \/ \E s \in Client, ok \in DbUp : LoginReselect(s, ok)
  \/ \E s \in Client, inp \in AnalyzeInputs : \E h \in Headers(s) :
        RecvAnalyze(s, h, inp.nfiles, inp.badType)
  \/ \E s \in Client : MulterSingle(s)
  \/ \E s \in Client : AnalyzeValidate(s)
  \/ \E s \in Client, out \in AnalysisAnswers : AnalyzeRespond(s, out)
  \/ \E s \in Client : Deliver(s)

SpecAnalyze == Init /\ [][NextAnalyze]_vars

(* ----------------------------------------------------------------------- *)
(* Properties                                                              *)
(* ----------------------------------------------------------------------- *)
Admitted(r) == r.checkedAt >= 0 /\ r.user # NoIdentity

NoEffect(r) == r.dbQueries = 0 /\ r.mlCalls = 0 /\ r.filesWritten = 0 /\ r.rowsInserted = 0

(* C1: an admitted matching submission with fewer than 5 or more than 20   *)
(* files (all of an accepted type) ends with 400, without a call of the    *)
(* ML service and without an inserted row.                                 *)
C1_BadCountIs400 ==
  \A s \in Slots :
    LET r == req[s] IN
    (r.kind = "match" /\ r.pc = "done" /\ Admitted(r) /\ ~r.badType
       /\ (r.nfiles < MinFiles \/ r.nfiles > MaxFiles))
      => (r.status = 400 /\ r.mlCalls = 0 /\ r.rowsInserted = 0)

BatchOf(r) == {u \in uploads : u.id = r.uploadId}

Succeeded(r) == r.kind = "match" /\ r.pc = "done" /\ r.status = 200

(* C3, as claimed: a successful submission answered with N entries has     *)
(* inserted one batch and N candidates of that batch, the i-th of them     *)
(* with rank_position i.                                                   *)
C3_RanksAreOneToN ==
  \A s \in Slots :
    LET r == req[s]
        rows == CandidatesOf({r.uploadId})
    IN Succeeded(r)
         => /\ Cardinality(BatchOf(r)) = 1
            /\ Len(rows) = Len(r.ml.top_candidates)
            /\ \A k \in 1..Len(rows) : rows[k].rank_position = k

(* C3, amended: a successful submission answered with N entries has        *)
(* inserted one batch and N candidates of that batch, in the order of the  *)
(* entries, the i-th with the rank_position its entry carries (0 for an    *)
(* entry that carries none); the ranks are 1..N when the service numbers   *)
(* its entries 1..N.                                                       *)
C3_RanksAsSupplied ==
  \A s \in Slots :
    LET r == req[s]
        list == r.ml.top_candidates
        rows == CandidatesOf({r.uploadId})
    IN Succeeded(r)
         => /\ Cardinality(BatchOf(r)) = 1
            /\ r.rowsInserted = 1 + Len(list)
            /\ Len(rows) = Len(list)
            /\ \A k \in 1..Len(rows) :
                 /\ rows[k].upload_id = r.uploadId
                 /\ list[k].rank_position = Missing => rows[k].rank_position = 0
                 /\ list[k].rank_position # Missing
                      => rows[k].rank_position = list[k].rank_position
            /\ (\A k \in 1..Len(list) : list[k].rank_position = k)
                 => \A k \in 1..Len(rows) : rows[k].rank_position = k

C3_Witness ==
  \E s \in Slots :
    /\ Succeeded(req[s])
    /\ Len(req[s].ml.top_candidates) = MaxCand
    /\ req[s].ml.top_candidates[1].rank_position = MaxCand

LowerH(c) == c \in {"h", "H"}

LowerR(c) == c \in {"r", "R"}

(* The role the claim gives a request: Hr for a string with an h and an r  *)
(* next to each other, in either case; Student for every other.            *)
ClaimedRole(role) ==
  IF role.type = "string"
     /\ \E k \in 1..(Len(role.chars) - 1) : LowerH(role.chars[k]) /\ LowerR(role.chars[k + 1])
  THEN "Hr" ELSE "Student"

Registering(r) ==
  r.kind = "login" /\ r.pc = "done" /\ r.dbQueries >= 1 /\ ~r.found /\ r.status # 500

C5_WrongPassword401 ==
  \A s \in Slots :
    LET r == req[s] IN
    (r.kind = "login" /\ r.pc = "done" /\ r.found
       /\ r.row.password # <<"bcrypt", r.password>>)
      => /\ r.status = 401
         /\ r.token = NoTok
         /\ r.dbQueries = 1 /\ r.rowsInserted = 0 /\ r.rowsDeleted = 0
         /\ r.row \in users

C5_Witness ==
  \E s \in Slots :
    /\ req[s].kind = "login" /\ req[s].pc = "done" /\ req[s].found
    /\ req[s].status = 401
    /\ req[s].password = "hunter2"
    /\ \E u \in users : u.email = req[s].email /\ u.password = <<"bcrypt", "pw123456">>

(* The token of the header is the server's and was not expired when the    *)
(* guard looked at it.                                                     *)
TokenGood(r) ==
  LET t == HeaderToken(r.hdr) IN t.sig = "valid" /\ r.checkedAt < t.exp

(* C6: on every protected route the handler runs only after the guard has  *)
(* verified the token and attached its identity; a request with no token   *)
(* is answered 401 "Missing token", one with a forged or expired token 401 *)
(* "Invalid or expired token", both before any query, ML call or file.     *)
C6_GuardFirst ==
  \A s \in Slots :
    LET r == req[s]
        t == HeaderToken(r.hdr)
    IN r.kind \in ProtectedKinds
         => /\ r.pc = "auth" => NoEffect(r)
            /\ r.pc \notin {"idle", "auth", "done"}
                 => /\ r.checkedAt >= 0 /\ TokenGood(r)
                    /\ r.user = [userId |-> t.userId, email |-> t.email, role |-> t.role]
            /\ (r.pc = "done" /\ t = NoTok)
                 => r.status = 401 /\ r.message = "Missing token" /\ NoEffect(r)
            /\ (r.pc = "done" /\ t # NoTok /\ ~TokenGood(r))
                 => r.status = 401 /\ r.message = "Invalid or expired token" /\ NoEffect(r)
            /\ (r.pc = "done" /\ ~NoEffect(r)) => r.checkedAt >= 0 /\ TokenGood(r)

C6_Witness ==
  \E s \in Slots :
    /\ req[s].kind = "match" /\ req[s].pc = "done" /\ req[s].status = 401
    /\ HeaderToken(req[s].hdr).sig = "valid"
    /\ req[s].checkedAt >= HeaderToken(req[s].hdr).exp

(* C7: the token of a successful login carries the id, email and role of   *)
(* the user and expires 24 hours after it was issued; the guard admits it  *)
(* at every hour before that and refuses it from that hour on; the tokens  *)
(* a client holds keep the expiry they were issued with.                   *)
C7_TokenWindow ==
  \A s \in Slots :
    LET r == req[s]
        t == HeaderToken(r.hdr)
    IN /\ (r.kind = "login" /\ r.pc = "done" /\ r.status = 200)
            => /\ r.token.userId = r.row.id /\ r.token.email = r.row.email
               /\ r.token.role = r.row.role /\ r.row \in users
               /\ r.token.exp = r.token.iat + ExpiresInHours /\ r.token.iat <= now
       /\ held[s] # NoTok
            => held[s].exp = held[s].iat + ExpiresInHours /\ held[s].iat <= now
       /\ (r.kind = "profile" /\ r.checkedAt >= 0 /\ t.sig = "valid")
            => /\ r.checkedAt < t.iat + ExpiresInHours
                 => r.user # NoIdentity /\ r.status # 401
               /\ r.checkedAt >= t.iat + ExpiresInHours
                 => r.pc = "done" /\ r.status = 401 /\ r.user = NoIdentity

C7_Witness ==
  \E s \in Slots :
    /\ req[s].kind = "profile" /\ req[s].pc = "done" /\ req[s].status = 401
    /\ HeaderToken(req[s].hdr).sig = "valid"
    /\ req[s].checkedAt = HeaderToken(req[s].hdr).iat + ExpiresInHours

(* C8: a request for the candidates of a batch that does not exist or is   *)
(* another user's is answered 404 with neither the batch nor a candidate;  *)
(* what a 200 carries is the requester's batch and its candidates.         *)
C8_ForeignBatch404 ==
  \A s \in Slots :
    LET r == req[s] IN
    (r.kind = "candidates" /\ r.pc = "done" /\ Admitted(r))
      => /\ (\A u \in uploads : u.id = r.param => u.user_id # r.user.userId)
              => r.status = 404 /\ r.bodyUpload = NoUpload /\ r.bodyRows = <<>>
         /\ r.status = 200
              => /\ r.bodyUpload.id = r.param /\ r.bodyUpload.user_id = r.user.userId
                 /\ \A k \in DOMAIN r.bodyRows : r.bodyRows[k].upload_id = r.param

C8_Witness ==
  \E s \in Slots :
    /\ req[s].kind = "candidates" /\ req[s].pc = "done" /\ req[s].status = 404
    /\ \E u \in uploads, v \in users :
         /\ u.id = req[s].param /\ u.user_id # req[s].user.userId
         /\ v.id = req[s].user.userId
         /\ CandidatesOf({u.id}) # <<>>

(* C9: when the ML service answers a submission with a status that is not  *)
(* ok, it was called once, no row was inserted, and the submission is      *)
(* answered 500 with the status text of the service.                       *)
C9_UpstreamErrorOnce ==
  \A s \in Slots :
    LET r == req[s] IN
    (r.kind = "match" /\ r.pc = "done" /\ r.ml.kind = "notok")
      => /\ r.mlCalls = 1
         /\ r.rowsInserted = 0
         /\ r.status = 500
         /\ r.error = <<"ML API error: ", r.ml.statusText>>

C9_Witness ==
  \E s \in Slots :
    /\ req[s].kind = "match" /\ req[s].pc = "done" /\ req[s].status = 500
    /\ req[s].ml.kind = "notok" /\ req[s].ml.statusText = "Bad Gateway"
    /\ req[s].mlCalls = 1

(* C10: an admitted submission with 5 to 20 accepted files and no jobRole  *)
(* or no jobDescription (absent or empty) is answered 400, its files are   *)
(* removed, and it reached neither the ML service nor the database.        *)
C10_MissingFields400 ==
  \A s \in Slots :
    LET r == req[s] IN
    (r.kind = "match" /\ r.pc = "done" /\ Admitted(r) /\ ~r.badType
       /\ r.nfiles >= MinFiles /\ r.nfiles <= MaxFiles
       /\ (r.jobRole \in {Undefined, ""} \/ r.jobDescription \in {Undefined, ""}))
      => /\ r.status = 400
         /\ r.message = "Job role and description are required"
         /\ r.filesWritten = r.nfiles /\ FilesOf(s, r.nfiles) \cap disk = {}
         /\ r.mlCalls = 0 /\ r.dbQueries = 0 /\ r.rowsInserted = 0

C10_Witness ==
  \E s \in Slots :
    /\ req[s].kind = "match" /\ req[s].pc = "done" /\ req[s].status = 400
    /\ req[s].nfiles = MaxFiles /\ req[s].jobRole = "Backend Engineer"
    /\ req[s].jobDescription = ""

(* C11: in every state every candidates row names a resume_uploads row     *)
(* that exists and every resume_uploads row names a users row that exists, *)
(* whatever the interleaving of logins, submissions and deletions.         *)
C11_ReferentialIntegrity ==
  /\ \A k \in DOMAIN candidates : \E u \in uploads : u.id = candidates[k].upload_id
  /\ \A u \in uploads : \E v \in users : v.id = u.user_id

(* A submission lost its batch to the deletion of its user between the     *)
(* INSERT of the batch and an INSERT of a candidate, while the rows of     *)
(* another user are there.                                                 *)
C11_Witness ==
  \E s \in Slots :
    /\ req[s].kind = "match" /\ req[s].pc = "done" /\ req[s].status = 500
    /\ req[s].rowsInserted >= 1 /\ req[s].uploadId # 0
    /\ \A u \in uploads : u.id # req[s].uploadId
    /\ \A v \in users : v.id # req[s].user.userId
    /\ candidates # <<>>

(* C12: the step that answers DELETE /api/delete-account of user U with    *)
(* success leaves no users row of U, no batch of U and no candidate of a   *)
(* batch of U, and leaves every other row of the three tables as it was.   *)
C12_DeleteCascadeFrame ==
  [][\A s \in Slots :
       (req[s].pc = "delete" /\ req'[s].pc = "done" /\ req'[s].status = 200)
         => LET U == req[s].user.userId
                gone == {b.id : b \in {u \in uploads : u.user_id = U}}
            IN /\ \A v \in users' : v.id # U
               /\ \A b \in uploads' : b.user_id # U
               /\ \A k \in DOMAIN candidates' : candidates'[k].upload_id \notin gone
               /\ users' = {v \in users : v.id # U}
               /\ uploads' = {b \in uploads : b.user_id # U}
               /\ candidates' = SelectSeq(candidates, LAMBDA c : c.upload_id \notin gone)
               /\ Len(candidates') = Len(candidates)
                    - Cardinality({k \in DOMAIN candidates : candidates[k].upload_id \in gone})
    ]_vars

(* A user who owned a batch has deleted the account while the batch and    *)
(* the candidates of another user are there.                               *)
C12_Witness ==
  \E s \in Slots :
    /\ req[s].kind = "delete" /\ req[s].pc = "done" /\ req[s].status = 200
    /\ req[s].rowsDeleted = 1
    /\ nextUploadId - 1 > Cardinality(uploads)
    /\ uploads # {} /\ candidates # <<>> /\ users # {}

(* The number a topN of the form stands for.                               *)
RequestedTopN(topN) == CASE topN = "0" -> 0 [] topN = "3" -> 3 [] topN = "5" -> 5 [] OTHER -> Missing

FailedBetween(r) ==
  /\ r.kind = "match" /\ r.pc = "done" /\ r.uploadId # 0 /\ r.i = 0
  /\ (~r.ml.hasList \/ Len(r.ml.top_candidates) > 0)

(* C14: a submission that fails after the INSERT of its batch and before   *)
(* the INSERT of a candidate is answered 500 with the error, its batch is  *)
(* in resume_uploads with no candidate, and no step ever removes a batch.  *)
C14_OrphanBatchPersists ==
  /\ [](\A s \in Slots :
          LET r == req[s] IN
          FailedBetween(r)
            => /\ r.status = 500 /\ r.message = "Error processing resumes"
               /\ r.error # <<>>
               /\ r.rowsInserted = 1
               /\ Cardinality(BatchOf(r)) = 1
               /\ CandidatesOf({r.uploadId}) = <<>>)
  /\ [][\A u \in uploads : u \in uploads']_vars

C14_Witness ==
  \E s \in Slots :
    /\ FailedBetween(req[s])
    /\ req[s].error = <<"DbError">>
    /\ Len(req[s].ml.top_candidates) = MaxCand
    /\ req[s].status = 500
    /\ BatchOf(req[s]) # {} /\ candidates = <<>>

(* The candidates of the batches of a user, read off the tables.           *)
OwnedCandidateRows(userId) ==
  {k \in DOMAIN candidates :
     \E u \in uploads : u.id = candidates[k].upload_id /\ u.user_id = userId}

(* C15: dashboard-stats of an admitted user answers 200 with totalUploads  *)
(* the number of the user's batches and totalCandidates the number of      *)
(* candidates of exactly those batches; for a user with no candidate       *)
(* totalCandidates and avgScore are 0 (and avgScore is 50 otherwise, the   *)
(* score of every entry the service returns under Spec).                   *)
C15_StatsOfNoCandidates ==
  \A s \in Slots :
    LET r == req[s] IN
    (r.kind = "stats" /\ r.pc = "done" /\ Admitted(r))
      => /\ r.status = 200
         /\ r.totalUploads = Cardinality({u \in uploads : u.user_id = r.user.userId})
         /\ r.totalCandidates = Cardinality(OwnedCandidateRows(r.user.userId))
         /\ OwnedCandidateRows(r.user.userId) = {}
              => r.totalCandidates = 0 /\ r.avgScore = 0
         /\ OwnedCandidateRows(r.user.userId) # {} => r.avgScore = 50

(* The user owns one batch, which has no candidate: the statistics are     *)
(* 1, 0 and 0.                                                             *)
C15_Witness ==
  \E s \in Slots :
    /\ req[s].kind = "stats" /\ req[s].pc = "done" /\ req[s].status = 200
    /\ req[s].totalUploads = 1 /\ req[s].totalCandidates = 0 /\ req[s].avgScore = 0
    /\ \E u \in uploads : u.user_id = req[s].user.userId

(* C16: the step that answers upload-history of user U with success        *)
(* returns one row for each batch of U and no other row, with the fields   *)
(* of the batch, a later upload_date before an earlier one, and as         *)
(* avg_score the mean score of the candidates of that batch, rounded to    *)
(* hundredths, or no value for a batch with no candidate.                  *)
C16_HistoryIsOwnBatches ==
  [][\A s \in Slots :
       (req[s].pc = "history" /\ req'[s].pc = "done" /\ req'[s].status = 200)
         => LET U == req[s].user.userId
                rows == req'[s].bodyRows
                mine == {u \in uploads : u.user_id = U}
            IN /\ Len(rows) = Cardinality(mine)
               /\ {rows[k].id : k \in DOMAIN rows} = {u.id : u \in mine}
               /\ \A k \in DOMAIN rows : \E u \in mine :
                    /\ u.id = rows[k].id
                    /\ u.total_resumes = rows[k].total_resumes
                    /\ u.required_candidates = rows[k].required_candidates
                    /\ u.upload_date = rows[k].upload_date
               /\ \A k, l \in DOMAIN rows :
                    k < l => rows[k].upload_date >= rows[l].upload_date
               /\ \A k \in DOMAIN rows :
                    LET cs == SelectSeq(candidates, LAMBDA c : c.upload_id = rows[k].id)
                        n == Len(cs)
                    IN /\ n = 0 => rows[k].avg_score = Missing
                       /\ n > 0 => /\ rows[k].avg_score # Missing
                                   /\ 2 * n * rows[k].avg_score - 200 * SumScores(cs) \in -n..n
    ]_vars

(* The history of a user with two batches of different dates, the later    *)
(* one first, one of them with no candidate.                               *)
C16_Witness ==
  \E s \in Slots :
    /\ req[s].kind = "history" /\ req[s].pc = "done" /\ req[s].status = 200
    /\ Len(req[s].bodyRows) = 2
    /\ req[s].bodyRows[1].upload_date > req[s].bodyRows[2].upload_date
    /\ \E k \in 1..2 : req[s].bodyRows[k].avg_score = Missing
    /\ \E k \in 1..2 : req[s].bodyRows[k].avg_score = 5000

(* C17: a request to analyze a resume is served whatever its Authorization *)
(* header, without the guard; no step of it changes a table or runs a      *)
(* query; when it is answered none of its files is on disk; with no file   *)
(* it is answered 400 and the ML service is not called; a successful       *)
(* answer of the ML service is sent on as received, a failed one gives     *)
(* 500.                                                                    *)
C17_AnalyzeRelays ==
  /\ [](\A s \in Slots :
          LET r == req[s] IN
          r.kind = "analyze"
            => /\ r.checkedAt = -1 /\ r.user = NoIdentity /\ r.status # 401
               /\ r.dbQueries = 0 /\ r.rowsInserted = 0 /\ r.rowsDeleted = 0
               /\ r.pc = "done"
                    => /\ FilesOf(s, r.nfiles) \cap disk = {}
                       /\ r.nfiles = 0 => r.status = 400 /\ r.mlCalls = 0
                       /\ (r.nfiles = 1 /\ ~r.badType) => r.mlCalls = 1
                       /\ (r.mlCalls = 1 /\ r.ml.kind = "ok")
                            => r.status = 200 /\ r.bodyMl = r.ml
                       /\ (r.mlCalls = 1 /\ r.ml.kind # "ok")
                            => r.status = 500 /\ r.bodyMl = NoMl
                       /\ r.status = 200 => r.bodyMl = r.ml /\ r.ml.kind = "ok")
  /\ [][\A s \in Slots :
         (req[s].kind = "analyze" \/ req'[s].kind = "analyze")
           => UNCHANGED <<users, uploads, candidates, nextUserId, nextUploadId, nextCandId>>
      ]_vars

(* A request with no Authorization header whose file went to the ML        *)
(* service, which answered with a status that is not ok, while users       *)
(* exist.                                                                  *)
C17_Witness ==
  \E s \in Slots :
    /\ req[s].kind = "analyze" /\ req[s].pc = "done" /\ req[s].status = 500
    /\ req[s].hdr = HdrAbsent
    /\ req[s].filesWritten = 1 /\ req[s].mlCalls = 1 /\ req[s].ml.kind = "notok"
    /\ users # {}

(* C18: a login whose email or password is absent or empty is answered     *)
(* 400 before any query, with no users row made and no token; a login      *)
(* that met a failure of the database is answered 500 with no token.       *)
C18_LoginBadRequest ==
  /\ [](\A s \in Slots :
          LET r == req[s] IN
          (r.kind = "login" /\ r.pc = "done")
            => /\ (r.email \in {Undefined, ""} \/ r.password \in {Undefined, ""})
                    => /\ r.status = 400
                       /\ r.dbQueries = 0 /\ r.rowsInserted = 0 /\ r.token = NoTok
               /\ r.status = 500 => r.token = NoTok
               /\ r.status = 400 => r.token = NoTok /\ r.dbQueries = 0
               /\ r.token # NoTok => r.status = 200)
  /\ [][\A s \in Slots :
         (req[s].kind = "login" /\ req'[s].pc = "done" /\ req'[s].status = 400)
           => UNCHANGED <<users, nextUserId>>
      ]_vars
  /\ [][\A s \in Slots, ok \in {FALSE} :
         (/\ req[s].email \notin {Undefined, ""} /\ req[s].password \notin {Undefined, ""}
          /\ (LoginSelect(s, ok) \/ LoginInsert(s, ok) \/ LoginReselect(s, ok)))
           => req'[s].pc = "done" /\ req'[s].status = 500 /\ req'[s].token = NoTok
      ]_vars

(* An empty password was answered 400 while the email is that of a user.   *)
C18_Witness ==
  \E s \in Slots :
    /\ req[s].kind = "login" /\ req[s].pc = "done" /\ req[s].status = 400
    /\ req[s].password = ""
    /\ \E u \in users : u.email = req[s].email

(* What user U has stored and what the three read endpoints return to U:   *)
(* the batches, the candidates of each, the rows of upload-history and the *)
(* three numbers of dashboard-stats.                                       *)
ViewOf(U) ==
  [batches |-> UploadsOf(U),
   candidates |-> [b \in {u.id : u \in UploadsOf(U)} |-> CandidatesOf({b})],
   history |-> {HistoryRow(u) : u \in UploadsOf(U)},
   stats |-> <<Cardinality(UploadsOf(U)), Len(MyCandidates(U)), RoundedAvg(MyCandidates(U))>>]

(* The user a step of the request of slot s acts for.                      *)
ActorOf(s) == IF req[s].kind \in ProtectedKinds THEN req[s].user.userId ELSE 0

(* C19: in every interleaving of the steps of two clients, a step of a     *)
(* request of one user leaves what every other user has stored and reads   *)
(* as it was, and a successful submission has stored the batch and the     *)
(* candidates its own form and its own ML answer give, in their order.     *)
C19_SubmissionsIndependent ==
  /\ [][\A s \in Slots :
         (req'[s] # req[s] /\ <<uploads, candidates>>' # <<uploads, candidates>>)
           => \A U \in 1..nextUserId : U # ActorOf(s) => ViewOf(U)' = ViewOf(U)
      ]_vars
  /\ [](\A s \in Slots :
          LET r == req[s]
              list == r.ml.top_candidates
              rows == SelectSeq(candidates, LAMBDA c : c.upload_id = r.uploadId)
          IN (Succeeded(r) /\ BatchOf(r) # {})
               => /\ \A u \in BatchOf(r) :
                       /\ u.user_id = r.user.userId
                       /\ u.total_resumes = r.ml.total_resumes
                       /\ u.required_candidates = 3
                  /\ Len(rows) = Len(list)
                  /\ \A k \in DOMAIN rows :
                       /\ rows[k].score = list[k].score
                       /\ rows[k].rank_position = list[k].rank_position
                  /\ r.bodyId = r.uploadId /\ r.bodyMl = r.ml)

(* The submissions of two users have both succeeded, the INSERTs of their  *)
(* candidates having alternated.                                           *)
C19_Witness ==
  /\ Succeeded(req["s1"]) /\ Succeeded(req["s2"])
  /\ req["s1"].user.userId # req["s2"].user.userId
  /\ Len(candidates) = MaxCand + 1
  /\ candidates[1].upload_id = req["s1"].uploadId
  /\ candidates[2].upload_id = req["s2"].uploadId
  /\ candidates[3].upload_id = req["s1"].uploadId
  /\ req["s1"].uploadId > req["s2"].uploadId

(* The step removes the users row of id userId by a delete-account of      *)
(* that user.                                                              *)
DeletesUser(userId) ==
  /\ \E v \in users : v.id = userId
  /\ \A v \in users' : v.id # userId
  /\ \E s \in Slots : /\ req[s].pc = "delete" /\ req[s].user.userId = userId
                      /\ req'[s].pc = "done" /\ req'[s].status = 200

(* C20: every step leaves every resume_uploads row and every candidates    *)
(* row with all its fields, or removes it; it removes a batch only when    *)
(* it deletes the account of the user who owns it, and a candidate only    *)
(* together with its batch.                                                *)
C20_RowsImmutable ==
  [][/\ \A u \in uploads :
          \/ u \in uploads'
          \/ /\ \A w \in uploads' : w.id # u.id
             /\ DeletesUser(u.user_id)
     /\ \A k \in DOMAIN candidates :
          LET c == candidates[k] IN
          \/ \E j \in DOMAIN candidates' : candidates'[j] = c
          \/ /\ \A j \in DOMAIN candidates' : candidates'[j].id # c.id
             /\ \E u \in uploads : u.id = c.upload_id /\ u \notin uploads'
                                   /\ DeletesUser(u.user_id)
    ]_vars

(* The second client has read a history of one batch, its own, and the     *)
(* submission of the first client, sent before, has then stored a second   *)
(* batch and its candidates.                                               *)
C20_Witness ==
  /\ req["s2"].kind = "history" /\ req["s2"].pc = "done" /\ req["s2"].status = 200
  /\ Len(req["s2"].bodyRows) = 1
  /\ Succeeded(req["s1"]) /\ req["s1"].uploadId > req["s2"].bodyRows[1].id
  /\ Cardinality(uploads) = 2 /\ Len(candidates) = MaxCand + 1

(* ----------------------------------------------------------------------- *)
(* C21: every request that has ended has written exactly one response,     *)
(* with one of the server's statuses and a JSON body, whatever failed      *)
(* while it was handled: the database, the ML service or the upload        *)
(* middleware (a file of another type, a file beyond the 20th).            *)
(* ----------------------------------------------------------------------- *)
Statuses == {200, 400, 401, 403, 404, 500}

C21_OneJsonResponse ==
  \A s \in Slots :
    LET r == req[s] IN
    r.pc = "done" => /\ r.responses = 1
                     /\ r.status \in Statuses
                     /\ r.contentType = "application/json"

(* ----------------------------------------------------------------------- *)
(* SpecRace: two clients that only log in, with either email, their        *)
(* requests interleaved at every await, over a database that may fail      *)
(* ----------------------------------------------------------------------- *)
NextRace ==
  \/ \E s \in Slots, e \in Emails, p \in Passwords :
        RecvLogin(s, e, p, RoleString(<<"H", "r">>))
  \/ \E s \in Slots, ok \in DbAny : LoginSelect(s, ok)
  \/ \E s \in Slots : LoginCompare(s)
  \/ \E s \in Slots, ok \in DbAny : LoginInsert(s, ok)
  \/ \E s \in Slots, ok \in DbAny : LoginReselect(s, ok)
  \/ \E s \in Slots : Deliver(s)

SpecRace == Init /\ [][NextRace]_vars

(* A login request that found no row with its email                        *)
FirstTime(r) == r.kind = "login" /\ r.dbQueries >= 1 /\ ~r.found /\ Truthy(r.email)

(* ----------------------------------------------------------------------- *)
(* C22: no two rows of users have one email; of two login requests with    *)
(* one email that both found no row, at most one has inserted a row, and   *)
(* a request that has inserted a row has inserted one, with its email.     *)
(* ----------------------------------------------------------------------- *)
C22_EmailUnique ==
  /\ \A u, v \in users : u.email = v.email => u = v
  /\ \A s, t \in Slots :
       (s # t /\ FirstTime(req[s]) /\ FirstTime(req[t])
              /\ req[s].email = req[t].email)
         => req[s].rowsInserted + req[t].rowsInserted <= 1
  /\ \A s \in Slots :
       (req[s].kind = "login" /\ req[s].rowsInserted > 0)
         => /\ req[s].rowsInserted = 1
            /\ Cardinality({u \in users : u.email = req[s].email}) = 1

(* Both requests found no row with the email; the first inserted its row   *)
(* and answered 200, the second was refused by the UNIQUE column: 500.     *)
C22_Witness ==
  /\ FirstTime(req["s1"]) /\ FirstTime(req["s2"])
  /\ req["s1"].email = req["s2"].email
  /\ req["s1"].pc = "done" /\ req["s1"].status = 200 /\ req["s1"].rowsInserted = 1
  /\ req["s2"].pc = "done" /\ req["s2"].status = 500 /\ req["s2"].rowsInserted = 0
  /\ req["s2"].dbQueries = 2
  /\ Cardinality({u \in users : u.email = req["s1"].email}) = 1

(* The request of slot s goes on: the step neither ends it with a new      *)
(* request nor starts it.                                                  *)
SameRequest(s) == req[s].pc # "idle" /\ req'[s].pc # "idle"

(* ----------------------------------------------------------------------- *)
(* C23: in every interleaving of two clients' submissions, a step that     *)
(* inserts a batch is a step of one request, which takes the new id as     *)
(* its uploadId and keeps it; a step that inserts a candidate is a step    *)
(* of one request and the row carries that request's uploadId and the      *)
(* score of the next entry of that request's ML answer; and the 200        *)
(* response carries that uploadId and that request's ML answer.            *)
(* ----------------------------------------------------------------------- *)
C23_OwnBatchOwnResults ==
  /\ [][/\ uploads' \ uploads # {}
             => \E s \in Slots, row \in uploads' \ uploads :
                  /\ uploads' = uploads \cup {row}
                  /\ \A w \in uploads : w.id < row.id
                  /\ req[s].pc = "insert_upload" /\ req'[s] # req[s]
                  /\ req'[s].uploadId = row.id
                  /\ row.user_id = req[s].user.userId
                  /\ \A t \in Slots \ {s} : req'[t] = req[t] /\ req[t].uploadId # row.id
        /\ Len(candidates') > Len(candidates)
             => \E s \in Slots :
                  LET c == candidates'[Len(candidates')]
                      k == req[s].i + 1 IN
                  /\ candidates' = Append(candidates, c)
                  /\ req[s].pc = "insert_candidate" /\ req'[s] # req[s]
                  /\ c.upload_id = req[s].uploadId
                  /\ c.score = req[s].ml.top_candidates[k].score
                  /\ req[s].ml = MlAnswerOf(s, req[s].nfiles)
                  /\ \A t \in Slots \ {s} : req'[t] = req[t]
        /\ \A s \in Slots :
             (SameRequest(s) /\ req[s].uploadId # 0)
               => req'[s].uploadId = req[s].uploadId
       ]_vars
  /\ [](\A s \in Slots :
          Succeeded(req[s])
            => /\ req[s].uploadId # 0 /\ req[s].bodyId = req[s].uploadId
               /\ req[s].bodyMl = MlAnswerOf(s, req[s].nfiles)
               /\ \A t \in Slots \ {s} :
                    req[t].kind = "match" => req[t].uploadId # req[s].bodyId)

(* Both submissions have succeeded with their own ids, the candidate of    *)
(* the second inserted between the two of the first.                       *)
C23_Witness ==
  /\ Succeeded(req["s1"]) /\ Succeeded(req["s2"])
  /\ req["s1"].bodyId = 1 /\ req["s2"].bodyId = 2
  /\ Len(candidates) = MaxCand + 1
  /\ candidates[1].upload_id = 1 /\ candidates[2].upload_id = 2
  /\ candidates[Len(candidates)].upload_id = 1
  /\ req["s1"].bodyMl # req["s2"].bodyMl

(* ----------------------------------------------------------------------- *)
(* C24: the 200 answer of GET /api/candidates/B carries the requester's    *)
(* batch B and one row for each candidates row of B and no other, in       *)
(* ascending rank_position, each with the stored id, score and rank and    *)
(* with matched_skills the list whose JSON text the row stores: the list   *)
(* the ML service gave for the entry of that rank, the empty list when it  *)
(* gave none.                                                              *)
(* ----------------------------------------------------------------------- *)
C24_CandidatesOfBatch ==
  [][\A s \in Slots :
       (req[s].pc = "candidates_rows" /\ req'[s].pc = "done" /\ req'[s].status = 200)
         => LET b == req'[s].bodyRows
                stored == CandidatesOf({req[s].param}) IN
            /\ req'[s].bodyUpload \in uploads
            /\ req'[s].bodyUpload.id = req[s].param
            /\ req'[s].bodyUpload.user_id = req[s].user.userId
            /\ Len(b) = Len(stored)
            /\ \A k \in DOMAIN stored : \E j \in DOMAIN b :
                 /\ b[j].id = stored[k].id
                 /\ b[j].upload_id = req[s].param
                 /\ b[j].score = stored[k].score
                 /\ b[j].rank_position = stored[k].rank_position
                 /\ b[j].matched_skills.kind = "array"
                 /\ JsonStringify(b[j].matched_skills) = stored[k].matched_skills
            /\ \A j, k \in DOMAIN b : j < k => b[j].rank_position <= b[k].rank_position
            /\ \A j \in DOMAIN b :
                 LET given == SkillsOfEntry(b[j].rank_position) IN
                 b[j].matched_skills = IF given = NoSkills THEN JsArray(<<>>) ELSE given
    ]_vars

(* A 200 answer with two rows: the first with its two skills, one of them  *)
(* with a quote and a backslash in its name, the second, for which the ML  *)
(* service gave no list, with the empty list.                              *)
C24_Witness ==
  \E s \in Slots :
    /\ req[s].kind = "candidates" /\ req[s].pc = "done" /\ req[s].status = 200
    /\ Len(req[s].bodyRows) = 2
    /\ req[s].bodyRows[1].rank_position = 1 /\ req[s].bodyRows[2].rank_position = 2
    /\ Len(req[s].bodyRows[1].matched_skills.items) = 2
    /\ req[s].bodyRows[1].matched_skills.items[2] = <<"c", "\"", "\\", "x">>
    /\ req[s].bodyRows[2].matched_skills = JsArray(<<>>)
    /\ \E k \in DOMAIN candidates :
         /\ candidates[k].id = req[s].bodyRows[1].id
         /\ Len(candidates[k].matched_skills) = 15

(* ----------------------------------------------------------------------- *)
(* SpecGone: two clients of one user, each holding a token of the user:    *)
(* both log in, submit, read the profile and delete the account, their     *)
(* requests interleaved at every await.                                    *)
(* ----------------------------------------------------------------------- *)
NextGone ==
  \/ \E s \in Slots : RecvLogin(s, "a@b.com", "pw123456", RoleString(<<"H", "r">>))
  \/ \E s \in Slots, ok \in DbUp : LoginSelect(s, ok)
  \/ \E s \in Slots : LoginCompare(s)
  \/ \E s \in Slots, ok \in DbUp : LoginInsert(s, ok)
  \/ \E s \in Slots, ok \in DbUp : LoginReselect(s, ok)
  \/ \E s \in Slots, k \in {"profile", "delete"} : \E h \in OwnBearer(s) :
        RecvProtected(s, k, h)
  \/ \E s \in Slots : \E h \in OwnBearer(s) :
        RecvMatch(s, h, MinFiles, FALSE, "Backend Engineer", "Builds services", "3")
  \/ \E s \in Slots : Authenticate(s)
  \/ \E s \in Slots, ok \in DbUp : Profile(s, ok)
  \/ \E s \in Slots, ok \in DbUp : DeleteAccount(s, ok)
  \/ \E s \in Slots : Multer(s)
  \/ \E s \in Slots : MatchValidate(s)
  \/ \E s \in Slots : MlRespond(s, MlOk(req[s].nfiles, TRUE, RankedList(1, 50)))
  \/ \E s \in Slots, ok \in DbUp : InsertUpload(s, ok)
  \/ \E s \in Slots, ok \in DbUp : InsertCandidate(s, ok)
  \/ \E s \in Slots : Deliver(s)

SpecGone == Init /\ [][NextGone]_vars

(* The user of a token has no row in users: the account was deleted after  *)
(* the token was issued.                                                   *)
Gone(userId) == \A u \in users : u.id # userId

(* ----------------------------------------------------------------------- *)
(* C25: once the account of a user is deleted, a request with a token      *)
(* issued to the user before, not expired, still passes the guard, which   *)
(* attaches the identity of the token; no step of a request with that      *)
(* identity inserts a batch or a candidate; and GET /api/profile with it   *)
(* is answered 404 "User not found".                                       *)
(* ----------------------------------------------------------------------- *)
C25_DeletedUserToken ==
  [][\A s \in Slots :
       LET r == req[s]
           t == HeaderToken(r.hdr) IN
       req'[s] # r =>
         /\ (r.pc = "auth" /\ t # NoTok /\ JwtVerifyOk(t, now) /\ Gone(t.userId))
              => /\ req'[s].pc = (IF r.kind = "match" THEN "multer" ELSE r.kind)
                 /\ req'[s].user.userId = t.userId
         /\ (r.kind \in ProtectedKinds /\ r.user # NoIdentity /\ Gone(r.user.userId))
              => /\ uploads' = uploads /\ candidates' = candidates
                 /\ nextUploadId' = nextUploadId /\ nextCandId' = nextCandId
                 /\ r.pc = "profile"
                      => /\ req'[s].pc = "done" /\ req'[s].status = 404
                         /\ req'[s].message = "User not found"
                 /\ r.pc \in {"insert_upload", "insert_candidate"}
                      => req'[s].pc = "done" /\ req'[s].status = 500
    ]_vars

(* The account is deleted; since then, with the tokens issued before, one  *)
(* client's submission passed the guard, called the ML service and was     *)
(* answered 500 with no row inserted, and the other's profile request      *)
(* passed the guard and was answered 404.                                  *)
C25_Witness ==
  /\ users = {} /\ nextUserId = 2 /\ uploads = {} /\ candidates = <<>>
  /\ req["s1"].kind = "match" /\ req["s1"].pc = "done" /\ req["s1"].status = 500
  /\ Admitted(req["s1"]) /\ req["s1"].mlCalls = 1 /\ req["s1"].rowsInserted = 0
  /\ req["s1"].user.userId = 1
  /\ req["s2"].kind = "profile" /\ req["s2"].pc = "done" /\ req["s2"].status = 404
  /\ Admitted(req["s2"]) /\ req["s2"].user.userId = 1
  /\ nextUploadId = 1

(* ----------------------------------------------------------------------- *)
(* C26: a submission that has stored a batch sent the ML service, as       *)
(* top_n, the number the batch records as required_candidates, whatever    *)
(* the topN of the form: absent, "0", no number, or a number.              *)
(* ----------------------------------------------------------------------- *)
C26_ForwardedIsStored ==
  \A s \in Slots :
    LET r == req[s] IN
    (r.kind = "match" /\ r.uploadId # 0)
      => \A u \in BatchOf(r) : RequestedTopN(r.sentTopN) = u.required_candidates

(* ----------------------------------------------------------------------- *)
(* The client: services/api.js, store/useStore.js, the auth form           *)
(* ----------------------------------------------------------------------- *)
server == <<db, disk, now, held, req>>

(* The tokens and the users of login responses, as the client sees them.   *)
ClientTokens == {"tok1", "tok2"}
ClientUsers == {"u1", "u2"}

(* JSON.stringify of a user object: its text.                              *)
UserJson == [u \in ClientUsers |-> CASE u = "u1" -> "{\"id\":1}" [] u = "u2" -> "{\"id\":2}"]

(* What authAPI.login gets from POST /api/login: a 200 with token and      *)
(* user, a 200 with a user and no token, or an answer that is not ok.      *)
LoginResponse(ok, token, user) == [ok |-> ok, token |-> token, user |-> user]

LoginResponses ==
  {LoginResponse(TRUE, "tok1", "u1"), LoginResponse(TRUE, "tok2", "u2"),
   LoginResponse(TRUE, Null, "u1"), LoginResponse(FALSE, Null, Null)}

(* partialize of the persist middleware (lines 63-68), written to          *)
(* localStorage under the store's name at every set.                       *)
Partialize(st) == <<st.user, st.isAuthenticated, st.jobPredictions, st.theme>>

Persist(ls, st) == [ls EXCEPT !["ai-job-predictor-storage"] = Item(Partialize(st))]

(* authAPI.login after the response (services/api.js 29-37)                *)
ApiLoginStores(ls, data) ==
  IF data.token # Null
    THEN [ls EXCEPT !["authToken"] = Item(<<data.token>>),
                    !["user"] = Item(<<UserJson[data.user]>>)]
  ELSE ls

(* authAPI.logout (services/api.js 40-43)                                  *)
ApiLogout_AlsoToken(ls) ==
  [ls EXCEPT !["authToken"] = NoItem, !["user"] = NoItem, !["token"] = NoItem]

ApiLogout(ls) == [ls EXCEPT !["authToken"] = NoItem, !["user"] = NoItem]

(* !!user of setUser                                                       *)
IsAuthenticatedOf_Always(user) == TRUE

IsAuthenticatedOf(user) == user # Null

(* setUser (useStore.js 21-27), on a given localStorage and store          *)
SetUserOn(ls, st, user) ==
  LET st2 == [st EXCEPT !.user = user, !.isAuthenticated = IsAuthenticatedOf(user)]
      ls2 == IF user # Null THEN [ls EXCEPT !["user"] = Item(<<UserJson[user]>>)] ELSE ls
  IN [ls |-> Persist(ls2, st2), st |-> st2]

setUser(user) ==
  /\ localStorage' = SetUserOn(localStorage, store, user).ls
  /\ store' = SetUserOn(localStorage, store, user).st
  /\ lastCall' = "setUser"
  /\ UNCHANGED <<server, dash>>

(* logout of the store (useStore.js 28-32)                                 *)
logout ==
  LET st2 == [store EXCEPT !.user = Null, !.isAuthenticated = FALSE] IN
  /\ localStorage' = Persist(ApiLogout(localStorage), st2)
  /\ store' = st2
  /\ lastCall' = "logout"
  /\ UNCHANGED <<server, dash>>

(* toggleTheme and addJobPrediction of the store                           *)
toggleTheme ==
  LET st2 == [store EXCEPT !.theme = IF @ = "light" THEN "dark" ELSE "light"] IN
  /\ localStorage' = Persist(localStorage, st2)
  /\ store' = st2
  /\ lastCall' = "toggleTheme"
  /\ UNCHANGED <<server, dash>>

MaxPredictions == 1

addJobPrediction(prediction) ==
  LET st2 == [store EXCEPT !.jobPredictions = Append(@, prediction)] IN
  /\ Len(store.jobPredictions) < MaxPredictions
  /\ localStorage' = Persist(localStorage, st2)
  /\ store' = st2
  /\ lastCall' = "addJobPrediction"
  /\ UNCHANGED <<server, dash>>

(* onSubmit of the auth form (part_001 1493-1525) with the answer of       *)
(* POST /api/login: authAPI.login stores the token as 'authToken', the     *)
(* form stores it as 'token', and setUser is called with the user.  An     *)
(* answer that is not ok makes authAPI.login throw: an alert, no change.   *)
onSubmit(response) ==
  LET ls1 == ApiLoginStores(localStorage, response)
      ls2 == IF response.token # Null
               THEN [ls1 EXCEPT !["token"] = Item(<<response.token>>),
                                !["user"] = Item(<<UserJson[response.user]>>)]
             ELSE ls1
      set == IF response.user # Null THEN SetUserOn(ls2, store, response.user)
             ELSE [ls |-> ls2, st |-> store]
  IN
  /\ lastCall' = "login"
  /\ IF ~response.ok THEN UNCHANGED <<localStorage, store>>
     ELSE localStorage' = set.ls /\ store' = set.st
  /\ UNCHANGED <<server, dash>>

(* ----------------------------------------------------------------------- *)
(* SpecSession: the auth form and the store of one browser                 *)
(* ----------------------------------------------------------------------- *)
NextSession ==
  \/ \E response \in LoginResponses : onSubmit(response)
  \/ \E u \in ClientUsers \cup {Null} : setUser(u)
  \/ logout
  \/ toggleTheme
  \/ addJobPrediction("p1")

SpecSession == Init /\ [][NextSession]_vars

(* ----------------------------------------------------------------------- *)
(* C27: after logout, whatever logins came before, localStorage holds no   *)
(* token under 'authToken' or 'token', the keys read for the               *)
(* Authorization header, and no user under 'user'.                         *)
(* ----------------------------------------------------------------------- *)
C27_LogoutClearsCredentials ==
  lastCall = "logout"
    => /\ localStorage["authToken"] = NoItem
       /\ localStorage["token"] = NoItem
       /\ localStorage["user"] = NoItem

(* ----------------------------------------------------------------------- *)
(* C28: in the store isAuthenticated is true exactly when user is not      *)
(* null; a logout leaves user null and isAuthenticated false, and leaves   *)
(* jobPredictions and theme as they were.                                  *)
(* ----------------------------------------------------------------------- *)
C28_StoreAuthenticated ==
  /\ [](store.isAuthenticated <=> store.user # Null)
  /\ [](lastCall = "logout" => store.user = Null /\ ~store.isAuthenticated)
  /\ [][(lastCall' = "logout" /\ client' # client)
          => /\ store'.jobPredictions = store.jobPredictions
             /\ store'.theme = store.theme]_vars

(* A logout of an authenticated user, after the theme was changed and a    *)
(* prediction added.                                                       *)
C28_Witness ==
  /\ lastCall = "logout" /\ store.user = Null /\ ~store.isAuthenticated
  /\ store.theme = "light" /\ Len(store.jobPredictions) = 1
  /\ localStorage["token"] # NoItem

(* ----------------------------------------------------------------------- *)
(* The dashboard: pages/dashboard.jsx and its variant in part_001          *)
(* ----------------------------------------------------------------------- *)
(* The least and the greatest number of files onHrFiles and the Rank       *)
(* Candidates button accept: files.length < 5 in pages/dashboard.jsx,      *)
(* files.length < 3 in part_001, files.length > 20 in both.                *)
LeastOfPage == 5
LeastOfPart == 3
MostSelected == 20

SelectionSizes ==
  {0, LeastOfPart - 1, LeastOfPart, LeastOfPart + 1, LeastOfPage, MostSelected,
   MostSelected + 1}

(* The component is mounted, in one of its two variants, with the values   *)
(* of its useState calls.                                                  *)
Mount(least) ==
  /\ ~dash.mounted
  /\ dash' = [Unmounted EXCEPT !.mounted = TRUE, !.least = least]
  /\ UNCHANGED <<server, localStorage, store, lastCall>>

SelectionRefused(d, n) == n < d.least \/ n > MostSelected

(* onHrFiles (lines 413-422): the change of the file input                 *)
onHrFiles(n) ==
  /\ dash.mounted
  /\ dash' = IF SelectionRefused(dash, n)
               THEN [dash EXCEPT !.hrError = "Please upload between 5 and 20 resumes",
                                 !.hrFiles = 0]
             ELSE [dash EXCEPT !.hrFiles = n, !.hrError = ""]
  /\ UNCHANGED <<server, localStorage, store, lastCall>>

(* The inputs of the job role and of the job description                   *)
setJobRole(v) ==
  /\ dash.mounted
  /\ dash' = [dash EXCEPT !.jobRole = v]
  /\ UNCHANGED <<server, localStorage, store, lastCall>>

setJobDescription(v) ==
  /\ dash.mounted
  /\ dash' = [dash EXCEPT !.jobDescription = v]
  /\ UNCHANGED <<server, localStorage, store, lastCall>>

(* disabled={isProcessing} (line 1107): a disabled button gives no click.  *)
RankDisabled_Never(d) == FALSE

RankDisabled(d) == d.isProcessing

(* onClick of Rank Candidates up to its fetch (lines 1037-1065)            *)
onClickRank ==
  /\ dash.mounted /\ ~RankDisabled(dash)
  /\ dash' =
       IF SelectionRefused(dash, dash.hrFiles)
         THEN [dash EXCEPT !.hrError = "Please upload between 5 and 20 resumes"]
       ELSE IF ~Truthy(dash.jobRole) \/ ~Truthy(dash.jobDescription)
         THEN [dash EXCEPT !.hrError = "Job role and description are required"]
       ELSE [dash EXCEPT !.isProcessing = TRUE, !.hrError = "", !.pc = "fetch",
                         !.sentFiles = dash.hrFiles,
                         !.sentToken = localStorage["token"],
                         !.inFlight = @ + 1]
  /\ UNCHANGED <<server, localStorage, store, lastCall>>

(* catch and finally of the onClick (lines 1101-1105)                      *)
RankFailed(d, message) == [d EXCEPT !.hrError = message, !.isProcessing = FALSE, !.pc = "idle"]

(* What the fetch of /api/match-resumes gives: a 200, an answer that is    *)
(* not ok with a JSON body, one with a body that is no JSON, or no answer. *)
FetchOutcomes == {"ok", "error_json", "error_other", "network"}

(* Lines 1062-1074: the fetch returns                                      *)
MatchReturns(out) ==
  LET d == [dash EXCEPT !.inFlight = @ - 1] IN
  /\ dash.pc = "fetch"
  /\ dash' = CASE out = "ok" -> [d EXCEPT !.pc = "stats"]
               [] out = "error_json" -> RankFailed(d, "Failed to process resumes")
               [] out = "error_other" -> RankFailed(d, "SyntaxError")
               [] out = "network" -> RankFailed(d, "Failed to fetch")
  /\ UNCHANGED <<server, localStorage, store, lastCall>>

(* Lines 1076-1105: the three reloads after a 200, each an await that may  *)
(* throw, then the form is cleared; finally isProcessing is reset.         *)
ReloadReturns(ok) ==
  /\ dash.pc \in {"stats", "history", "candidates"}
  /\ dash' = IF ~ok THEN RankFailed(dash, "Failed to fetch")
             ELSE CASE dash.pc = "stats" -> [dash EXCEPT !.pc = "history"]
                    [] dash.pc = "history" -> [dash EXCEPT !.pc = "candidates"]
                    [] dash.pc = "candidates" ->
                         [dash EXCEPT !.jobRole = "", !.jobDescription = "",
                                      !.hrFiles = 0, !.isProcessing = FALSE,
                                      !.pc = "idle"]
  /\ UNCHANGED <<server, localStorage, store, lastCall>>

(* ----------------------------------------------------------------------- *)
(* SpecDashboard: one dashboard, in either variant, after any login and    *)
(* logout; SpecDashboardFair: the same, where every fetch returns.         *)
(* ----------------------------------------------------------------------- *)
NextDashboard ==
  \/ onSubmit(LoginResponse(TRUE, "tok1", "u1"))
  \/ logout
  \/ \E least \in {LeastOfPage, LeastOfPart} : Mount(least)
  \/ \E n \in SelectionSizes : onHrFiles(n)
  \/ \E v \in {"", "Backend Engineer"} : setJobRole(v)
  \/ \E v \in {"", "Builds services"} : setJobDescription(v)
  \/ onClickRank
  \/ \E out \in FetchOutcomes : MatchReturns(out)
  \/ \E ok \in BOOLEAN : ReloadReturns(ok)

SpecDashboard == Init /\ [][NextDashboard]_vars

SpecDashboardFair ==
  /\ Init /\ [][NextDashboard]_vars
  /\ WF_vars(\E out \in FetchOutcomes : MatchReturns(out))
  /\ WF_vars(\E ok \in BOOLEAN : ReloadReturns(ok))

(* ----------------------------------------------------------------------- *)
(* C29: the dashboard sends a submission only with a number of files the   *)
(* server does not refuse, neither by its count check nor by its upload    *)
(* middleware, and keeps a selection only of such a number; a selection    *)
(* it refuses leaves the error message and no selected file.               *)
(* ----------------------------------------------------------------------- *)
C29_SubmitsOnlyAccepted ==
  /\ dash.pc = "fetch"
       => ~CountRejected(dash.sentFiles) /\ ~MulterRejects(dash.sentFiles, FALSE)
  /\ dash.hrFiles # 0
       => ~CountRejected(dash.hrFiles) /\ ~MulterRejects(dash.hrFiles, FALSE)
  /\ dash.hrError = "Please upload between 5 and 20 resumes"
       => dash.hrFiles = 0 \/ dash.pc # "idle"

(* ----------------------------------------------------------------------- *)
(* C30: at most one submission of a dashboard is in flight; isProcessing   *)
(* is true from the click that sends it until its handler has ended, by    *)
(* whichever path; while it is true no click sends another; and once it    *)
(* is true it becomes false again, every fetch returning.                  *)
(* ----------------------------------------------------------------------- *)
C30_ProcessingFlag ==
  /\ [](dash.inFlight \in {0, 1})
  /\ [](dash.inFlight = 1 <=> dash.pc = "fetch")
  /\ [](dash.isProcessing <=> dash.pc # "idle")
  /\ [][dash'.inFlight > dash.inFlight => ~dash.isProcessing /\ dash'.isProcessing]_vars
  /\ (dash.isProcessing ~> ~dash.isProcessing)

(* A submission of five files has been sent and the fetch has failed: the  *)
(* error is shown, the files are kept, isProcessing is false again.        *)
C30_Witness ==
  /\ dash.sentFiles = LeastOfPage /\ dash.hrFiles = LeastOfPage
  /\ dash.hrError = "Failed to fetch"
  /\ dash.pc = "idle" /\ ~dash.isProcessing /\ dash.inFlight = 0
  /\ dash.sentToken = Item(<<"tok1">>)

====
